---- MODULE Spec2Model ----
(***************************************************************************)
(* Bot classification and log partitioning of the font-scraper analytics   *)
(* tool (filters/BotFilter.js).  JavaScript values are modelled as tagged  *)
(* records, strings as sequences of one-character strings, so that regular *)
(* expression tests and prefix tests are computed and not assumed.         *)
(***************************************************************************)
EXTENDS Integers, Sequences, FiniteSets, TLC

VARIABLES pc, request, outcome, logEntries, results,
          botFilter, analytics, sessions, fingerprints, history,
          deviceTally, classifier, fetcher

vars == <<pc, request, outcome, logEntries, results,
          botFilter, analytics, sessions, fingerprints, history,
          deviceTally, classifier, fetcher>>

---------------------------------------------------------------------------
(* JavaScript values.  kind is the value's type; num holds a number (or a  *)
(* boolean as 1/0), chars the characters of a string.                      *)

Undefined == [kind |-> "undefined", num |-> 0, chars |-> <<>>]

Null == [kind |-> "null", num |-> 0, chars |-> <<>>]

Num(n) == [kind |-> "number", num |-> n, chars |-> <<>>]

Bool(b) == [kind |-> "boolean", num |-> IF b THEN 1 ELSE 0, chars |-> <<>>]

Str(s) == [kind |-> "string", num |-> 0, chars |-> s]

\* ToBoolean: undefined, null, 0, false and "" are falsy.
Truthy(v) ==
    CASE v.kind = "undefined" -> FALSE
      [] v.kind = "null"      -> FALSE
      [] v.kind = "number"    -> v.num # 0
      [] v.kind = "boolean"   -> v.num = 1
      [] v.kind = "string"    -> v.chars # <<>>

\* ToNumber yields NaN for undefined; every comparison with NaN is false.
IsNaN(v) == v.kind = "undefined"

\* a > b for a JavaScript value a and a number b.
JsGreater(a, b) == ~IsNaN(a) /\ a.kind \in {"number", "boolean", "null"} /\ a.num > b

\* a < b for a JavaScript value a and a number b.
JsLess(a, b) == ~IsNaN(a) /\ a.kind \in {"number", "boolean", "null"} /\ a.num < b

\* a === n for a number n.
StrictEqNum(a, n) == a.kind = "number" /\ a.num = n

\* a === s for a string s.
StrictEqStr(a, s) == a.kind = "string" /\ a.chars = s

\* the lower-case letter of each upper-case letter
LowerCase ==
    [A |-> "a", B |-> "b", C |-> "c", D |-> "d", E |-> "e", F |-> "f", G |-> "g",
     H |-> "h", I |-> "i", J |-> "j", K |-> "k", L |-> "l", M |-> "m", N |-> "n",
     O |-> "o", P |-> "p", Q |-> "q", R |-> "r", S |-> "s", T |-> "t", U |-> "u",
     V |-> "v", W |-> "w", X |-> "x", Y |-> "y", Z |-> "z"]

ToLower(c) == IF c \in DOMAIN LowerCase THEN LowerCase[c] ELSE c

\* pattern.test(str) for a literal pattern with the i flag: some substring
\* of str equals the pattern up to letter case.
RegexTestI(pattern, str) ==
    \E i \in 1..(Len(str) - Len(pattern) + 1) :
        \A j \in 1..Len(pattern) : ToLower(str[i + j - 1]) = ToLower(pattern[j])

\* str.startsWith(prefix)
StartsWith(str, prefix) ==
    /\ Len(prefix) <= Len(str)
    /\ \A j \in 1..Len(prefix) : str[j] = prefix[j]

---------------------------------------------------------------------------
(* BotFilter constructor                                                   *)

botPatterns == <<
    <<"g","o","o","g","l","e","b","o","t">>,  \* /googlebot/i
    <<"b","i","n","g","b","o","t">>,  \* /bingbot/i
    <<"s","l","u","r","p">>,  \* /slurp/i
    <<"d","u","c","k","d","u","c","k","b","o","t">>,  \* /duckduckbot/i
    <<"b","a","i","d","u","s","p","i","d","e","r">>,  \* /baiduspider/i
    <<"y","a","n","d","e","x","b","o","t">>,  \* /yandexbot/i
    <<"s","o","g","o","u">>,  \* /sogou/i
    <<"e","x","a","b","o","t">>,  \* /exabot/i
    <<"f","a","c","e","b","o","o","k","e","x","t","e","r","n","a","l","h","i","t">>,  \* /facebookexternalhit/i
    <<"t","w","i","t","t","e","r","b","o","t">>,  \* /twitterbot/i
    <<"l","i","n","k","e","d","i","n","b","o","t">>,  \* /linkedinbot/i
    <<"p","i","n","t","e","r","e","s","t">>,  \* /pinterest/i
    <<"s","l","a","c","k","b","o","t">>,  \* /slackbot/i
    <<"t","e","l","e","g","r","a","m","b","o","t">>,  \* /telegrambot/i
    <<"w","h","a","t","s","a","p","p">>,  \* /whatsapp/i
    <<"a","h","r","e","f","s","b","o","t">>,  \* /ahrefsbot/i
    <<"s","e","m","r","u","s","h","b","o","t">>,  \* /semrushbot/i
    <<"m","a","j","e","s","t","i","c">>,  \* /majestic/i
    <<"m","j","1","2","b","o","t">>,  \* /mj12bot/i
    <<"d","o","t","b","o","t">>,  \* /dotbot/i
    <<"r","o","g","e","r","b","o","t">>,  \* /rogerbot/i
    <<"s","c","r","e","a","m","i","n","g"," ","f","r","o","g">>,  \* /screaming frog/i
    <<"a","r","c","h","i","v","e",".","o","r","g","_","b","o","t">>,  \* /archive.org_bot/i
    <<"i","a","_","a","r","c","h","i","v","e","r">>,  \* /ia_archiver/i
    <<"w","a","y","b","a","c","k">>,  \* /wayback/i
    <<"b","o","t">>,  \* /bot/i
    <<"c","r","a","w","l","e","r">>,  \* /crawler/i
    <<"s","p","i","d","e","r">>,  \* /spider/i
    <<"s","c","r","a","p","e","r">>,  \* /scraper/i
    <<"c","u","r","l">>,  \* /curl/i
    <<"w","g","e","t">>,  \* /wget/i
    <<"p","y","t","h","o","n","-","r","e","q","u","e","s","t","s">>,  \* /python-requests/i
    <<"j","a","v","a","/">>,  \* /java//i
    <<"g","o","-","h","t","t","p","-","c","l","i","e","n","t">>,  \* /go-http-client/i
    <<"a","x","i","o","s">>,  \* /axios/i
    <<"n","o","d","e","-","f","e","t","c","h">>,  \* /node-fetch/i
    <<"p","i","n","g","d","o","m">>,  \* /pingdom/i
    <<"u","p","t","i","m","e","r","o","b","o","t">>,  \* /uptimerobot/i
    <<"n","e","w","r","e","l","i","c">>,  \* /newrelic/i
    <<"d","a","t","a","d","o","g">>,  \* /datadog/i
    <<"s","i","t","e","2","4","x","7">>,  \* /site24x7/i
    <<"n","i","k","t","o">>,  \* /nikto/i
    <<"n","e","s","s","u","s">>,  \* /nessus/i
    <<"q","u","a","l","y","s">>,  \* /qualys/i
    <<"a","c","u","n","e","t","i","x">>,  \* /acunetix/i
    <<"n","m","a","p">>,  \* /nmap/i
    <<"c","l","o","u","d","f","l","a","r","e">>,  \* /cloudflare/i
    <<"a","k","a","m","a","i">>,  \* /akamai/i
    <<"f","a","s","t","l","y">>,  \* /fastly/i
    <<"h","e","a","d","l","e","s","s","c","h","r","o","m","e">>,  \* /headlesschrome/i
    <<"p","h","a","n","t","o","m","j","s">>,  \* /phantomjs/i
    <<"s","e","l","e","n","i","u","m">>,  \* /selenium/i
    <<"p","u","p","p","e","t","e","e","r">>,  \* /puppeteer/i
    <<"p","l","a","y","w","r","i","g","h","t">>   \* /playwright/i
>>

botIPRanges == <<
    <<"6","6",".","2","4","9",".","6","4",".","0","/","1","9">>,
    <<"6","6",".","1","0","2",".","0",".","0","/","2","0">>,
    <<"4","0",".","7","7",".","1","6","7",".","0","/","2","4">>,
    <<"2","0","7",".","4","6",".","1","3",".","0","/","2","4">>,
    <<"3","5",".","0",".","0",".","0","/","8">>,
    <<"5","2",".","0",".","0",".","0","/","8">> >>

rapidRequests == 100

shortSessionDuration == 2000

suspiciousPatterns ==
    [rapidRequests |-> rapidRequests,
     shortSessionDuration |-> shortSessionDuration,
     noJavaScript |-> TRUE,
     perfectLinear |-> TRUE]

\* the prefixes isBotIP tests against
knownBotIPs == <<
    <<"6","6",".","2","4","9",".">>,
    <<"4","0",".","7","7",".">>,
    <<"1","5","7",".","5","5",".">>,
    <<"2","0","7",".","4","6",".">> >>

---------------------------------------------------------------------------
(* A call either returns a value or throws.                                *)

Return(v) == [threw |-> FALSE, value |-> v]

Throw(v) == [threw |-> TRUE, value |-> v]

\* isBotUserAgent without the guard of line 115: a missing user agent is
\* tested as the text "undefined", which no signature matches
isBotUserAgent_NoGuard(userAgent) ==
    /\ userAgent.kind = "string"
    /\ \E k \in 1..Len(botPatterns) : RegexTestI(botPatterns[k], userAgent.chars)

isBotUserAgent(userAgent) ==
    IF ~Truthy(userAgent) \/ userAgent.kind # "string"
    THEN TRUE
    ELSE \E k \in 1..Len(botPatterns) : RegexTestI(botPatterns[k], userAgent.chars)

\* isBotIP testing the ip against the CIDR strings of botIPRanges
isBotIP_Ranges(ip) ==
    IF ~Truthy(ip) THEN Return(FALSE)
    ELSE IF ip.kind # "string" THEN Throw(FALSE)
    ELSE Return(\E k \in 1..Len(botIPRanges) : StartsWith(ip.chars, botIPRanges[k]))

\* ip.startsWith is not a function unless ip is a string: a truthy
\* non-string ip raises a TypeError.
isBotIP(ip) ==
    IF ~Truthy(ip) THEN Return(FALSE)
    ELSE IF ip.kind # "string" THEN Throw(FALSE)
    ELSE Return(\E k \in 1..Len(knownBotIPs) : StartsWith(ip.chars, knownBotIPs[k]))

---------------------------------------------------------------------------
(* analyzeBehavior: each check adds its weight to confidence and pushes    *)
(* its reason, in source order.                                            *)

behaviorChecks(session) == <<
    [hit    |-> JsGreater(session.requestsPerMinute, suspiciousPatterns.rapidRequests),
     weight |-> 30, reason |-> "Excessive request rate"],
    [hit    |-> JsLess(session.duration, suspiciousPatterns.shortSessionDuration),
     weight |-> 20, reason |-> "Suspiciously short session"],
    [hit    |-> ~Truthy(session.hasJavaScript),
     weight |-> 25, reason |-> "No JavaScript execution detected"],
    [hit    |-> StrictEqStr(session.accessPattern, <<"s","e","q","u","e","n","t","i","a","l">>)
                /\ Truthy(session.perfectTiming),
     weight |-> 25, reason |-> "Perfect sequential access pattern"],
    [hit    |-> StrictEqNum(session.errorRate, 0) /\ JsGreater(session.requestCount, 50),
     weight |-> 15, reason |-> "Zero error rate with high request count"],
    [hit    |-> ~Truthy(session.headers.acceptLanguage),
     weight |-> 10, reason |-> "Missing Accept-Language header"],
    [hit    |-> ~Truthy(session.headers.referer) /\ JsGreater(session.requestCount, 5),
     weight |-> 10, reason |-> "Missing Referer header on multiple requests"] >>

RECURSIVE RunChecks(_, _, _)
RunChecks(checks, k, indicators) ==
    IF k > Len(checks) THEN indicators
    ELSE RunChecks(checks, k + 1,
            IF checks[k].hit
            THEN [indicators EXCEPT !.confidence = @ + checks[k].weight,
                                    !.reasons = Append(@, checks[k].reason)]
            ELSE indicators)

botThreshold == 50

\* Reading session.headers.acceptLanguage raises a TypeError when
\* session.headers is undefined.
analyzeBehavior(session) ==
    LET init == [isBot |-> FALSE, confidence |-> 0, reasons |-> <<>>]
    IN  IF session.headers.kind # "object"
        THEN Throw(init)
        ELSE LET indicators == RunChecks(behaviorChecks(session), 1, init)
             IN  Return([indicators EXCEPT !.isBot = indicators.confidence >= botThreshold])

---------------------------------------------------------------------------
(* isBot: user agent, then IP, then behaviour; the first hit returns.      *)

\* the verdict kept in one object shared by all calls: the reasons pushed by
\* the calls made so far are still in it
emptyVerdict_Shared ==
    LET earlier == {i \in 1..Len(history) :
                      history[i].op = "isBot" /\ ~history[i].output.threw}
    IN  [isBot |-> FALSE, confidence |-> 0,
         reasons |-> IF earlier = {} THEN <<>>
                     ELSE history[CHOOSE i \in earlier : \A j \in earlier : j <= i].output.value.reasons,
         method |-> "null"]

emptyVerdict == [isBot |-> FALSE, confidence |-> 0, reasons |-> <<>>, method |-> "null"]

\* the user-agent verdict with method left null
userAgentVerdict_NoMethod ==
    [isBot |-> TRUE, confidence |-> 95, reasons |-> <<"Bot user-agent detected">>,
     method |-> "null"]

userAgentVerdict ==
    [isBot |-> TRUE, confidence |-> 95, reasons |-> <<"Bot user-agent detected">>,
     method |-> "user-agent"]

\* the ip verdict without the push of line 229
ipRangeVerdict_NoReason ==
    [isBot |-> TRUE, confidence |-> 85, reasons |-> <<>>, method |-> "ip-range"]

ipRangeVerdict ==
    [isBot |-> TRUE, confidence |-> 85, reasons |-> <<"IP from known bot range">>,
     method |-> "ip-range"]

\* the behavioural result copied into the verdict before isBot is tested
behavioralVerdict_CopyAlways(behaviorAnalysis) ==
    [isBot |-> behaviorAnalysis.isBot, confidence |-> behaviorAnalysis.confidence,
     reasons |-> behaviorAnalysis.reasons,
     method |-> IF behaviorAnalysis.isBot THEN "behavioral" ELSE "null"]

behavioralVerdict(behaviorAnalysis) ==
    IF behaviorAnalysis.isBot
    THEN [isBot |-> TRUE, confidence |-> behaviorAnalysis.confidence,
          reasons |-> behaviorAnalysis.reasons, method |-> "behavioral"]
    ELSE emptyVerdict

\* isBot with the IP check placed before the user-agent check
isBot_IPFirst(req) ==
    LET ipCheck == IF Truthy(req.ip) THEN isBotIP(req.ip) ELSE Return(FALSE)
    IN  IF ipCheck.threw THEN Throw(emptyVerdict)
        ELSE IF ipCheck.value THEN Return(ipRangeVerdict)
        ELSE IF isBotUserAgent(req.userAgent) THEN Return(userAgentVerdict)
        ELSE IF req.session.kind = "object"
             THEN LET behaviorAnalysis == analyzeBehavior(req.session)
                  IN  IF behaviorAnalysis.threw THEN Throw(emptyVerdict)
                      ELSE Return(behavioralVerdict(behaviorAnalysis.value))
             ELSE Return(emptyVerdict)

isBot(req) ==
    IF isBotUserAgent(req.userAgent) THEN Return(userAgentVerdict)
    ELSE LET ipCheck == IF Truthy(req.ip) THEN isBotIP(req.ip) ELSE Return(FALSE)
         IN  IF ipCheck.threw THEN Throw(emptyVerdict)
             ELSE IF ipCheck.value THEN Return(ipRangeVerdict)
             ELSE IF req.session.kind = "object"
                  THEN LET behaviorAnalysis == analyzeBehavior(req.session)
                       IN  IF behaviorAnalysis.threw THEN Throw(emptyVerdict)
                           ELSE Return(behavioralVerdict(behaviorAnalysis.value))
                  ELSE Return(emptyVerdict)

---------------------------------------------------------------------------
(* filterLogs: classify every entry, push it to bots (a copy carrying the  *)
(* verdict) or to legitimate, count the detection methods, then format the *)
(* bot percentage.                                                         *)

EmptyObject == [m \in {} |-> 0]

\* { ...entry, botDetection: detection }
annotate(entry, detection) ==
    [f \in DOMAIN entry \cup {"botDetection"} |->
        IF f = "botDetection" THEN detection ELSE entry[f]]

\* the counting with the count set to 1 instead of incremented
countMethod_NoIncrement(detectionMethods, method) ==
    LET key == IF method = "null" THEN "unknown" ELSE method
    IN  [m \in DOMAIN detectionMethods \cup {key} |->
            IF m = key THEN 1 ELSE detectionMethods[m]]

\* detectionMethods[method || 'unknown'] = (detectionMethods[...] || 0) + 1
countMethod(detectionMethods, method) ==
    LET key == IF method = "null" THEN "unknown" ELSE method
    IN  [m \in DOMAIN detectionMethods \cup {key} |->
            IF m = key
            THEN (IF key \in DOMAIN detectionMethods THEN detectionMethods[key] ELSE 0) + 1
            ELSE detectionMethods[m]]

\* the loop body with bot entries put at the front of bots
partitionEntry_Unshift(res, entry, detection) ==
    IF detection.isBot
    THEN [res EXCEPT !.bots = <<annotate(entry, detection)>> \o @,
                     !.stats.detectionMethods = countMethod(@, detection.method)]
    ELSE [res EXCEPT !.legitimate = Append(@, entry)]

\* the body of the forEach callback once the verdict is known
partitionEntry(res, entry, detection) ==
    IF detection.isBot
    THEN [res EXCEPT !.bots = Append(@, annotate(entry, detection)),
                     !.stats.detectionMethods = countMethod(@, detection.method)]
    ELSE [res EXCEPT !.legitimate = Append(@, entry)]

\* logEntries.forEach from entry k on; an exception of isBot ends the loop
RECURSIVE forEachEntry(_, _, _)
forEachEntry(entries, k, res) ==
    IF k > Len(entries) THEN Return(res)
    ELSE LET entry == entries[k]
             detection == isBot([userAgent |-> entry.userAgent,
                                 ip |-> entry.ip,
                                 session |-> entry.session])
         IN  IF detection.threw THEN Throw(res)
             ELSE forEachEntry(entries, k + 1, partitionEntry(res, entry, detection.value))

Digits == <<"0","1","2","3","4","5","6","7","8","9">>

RECURSIVE NatToChars(_)
NatToChars(n) ==
    IF n < 10 THEN <<Digits[n + 1]>>
    ELSE Append(NatToChars(n \div 10), Digits[(n % 10) + 1])

\* the percentage with a zero total answered by "0.00"
toFixed2Percent_ZeroGuard(num, den) ==
    LET h == IF den = 0 THEN 0 ELSE (2 * num * 10000 + den) \div (2 * den)
    IN  Str(NatToChars(h \div 100) \o <<".">>
            \o <<Digits[((h % 100) \div 10) + 1], Digits[(h % 10) + 1]>>)

\* ((num / den) * 100).toFixed(2): the text "NaN" for 0/0, else the nearest
\* number of hundredths (the larger one on a tie) written with two decimals
toFixed2Percent(num, den) ==
    IF den = 0 THEN Str(<<"N","a","N">>)
    ELSE LET h == (2 * num * 10000 + den) \div (2 * den)
         IN  Str(NatToChars(h \div 100) \o <<".">>
                 \o <<Digits[((h % 100) \div 10) + 1], Digits[(h % 10) + 1]>>)

\* the entry after a callback that writes botDetection into the entry it
\* was given
entryAfterFilter_InPlace(entry, detection) ==
    IF detection.isBot THEN annotate(entry, detection) ELSE entry

\* the entry of the input after the forEach callback has handled it: the
\* annotation is put on a copy ({ ...entry, botDetection }) and a legitimate
\* entry is pushed as it is, so the entry is not written
entryAfterFilter(entry, detection) == entry

\* the input array after filterLogs; the entries behind one that makes
\* isBot throw are not visited
inputAfterFilterLogs(entries) ==
    [i \in 1..Len(entries) |->
        LET detection == isBot([userAgent |-> entries[i].userAgent, ip |-> entries[i].ip,
                                session |-> entries[i].session])
            visited == \A j \in 1..(i - 1) :
                          ~isBot([userAgent |-> entries[j].userAgent, ip |-> entries[j].ip,
                                  session |-> entries[j].session]).threw
        IN  IF visited /\ ~detection.threw
            THEN entryAfterFilter(entries[i], detection.value)
            ELSE entries[i]]

filterLogs(entries) ==
    LET init == [total |-> Len(entries), legitimate |-> <<>>, bots |-> <<>>,
                 stats |-> [botPercentage |-> Num(0), detectionMethods |-> EmptyObject]]
        loop == forEachEntry(entries, 1, init)
    IN  IF loop.threw THEN loop
        ELSE Return([loop.value EXCEPT !.stats.botPercentage =
                        toFixed2Percent(Len(loop.value.bots), loop.value.total)])

---------------------------------------------------------------------------
(* AnalyticsReconstructor (archive/WaybackFetcher.js, second class).       *)
(* A Date is an instant split into whole days since 1970-01-01 and the     *)
(* milliseconds within the day, or the invalid date.                       *)

InvalidDate == [valid |-> FALSE, day |-> 0, ms |-> 0]

msPerDay == 86400000

\* days between 1970-01-01 and the civil date y-m-d
DaysFromCivil(y, m, d) ==
    LET yy  == IF m <= 2 THEN y - 1 ELSE y
        era == yy \div 400
        yoe == yy - era * 400
        mp  == IF m > 2 THEN m - 3 ELSE m + 9
        doy == (153 * mp + 2) \div 5 + d - 1
        doe == yoe * 365 + yoe \div 4 - yoe \div 100 + doy
    IN  era * 146097 + doe - 719468

\* the civil date of a day number, as <<year, month, day>>
CivilFromDays(z0) ==
    LET z   == z0 + 719468
        era == z \div 146097
        doe == z - era * 146097
        yoe == (doe - doe \div 1460 + doe \div 36524 - doe \div 146096) \div 365
        doy == doe - (365 * yoe + yoe \div 4 - yoe \div 100)
        mp  == (5 * doy + 2) \div 153
        d   == doy - (153 * mp + 2) \div 5 + 1
        m   == IF mp < 10 THEN mp + 3 ELSE mp - 9
        y   == yoe + era * 400 + (IF m <= 2 THEN 1 ELSE 0)
    IN  <<y, m, d>>

AllDigits(chars) == \A i \in 1..Len(chars) : \E d \in 1..10 : Digits[d] = chars[i]

RECURSIVE DigitsToNat(_)
DigitsToNat(chars) ==
    IF chars = <<>> THEN 0
    ELSE 10 * DigitsToNat(SubSeq(chars, 1, Len(chars) - 1))
         + (CHOOSE d \in 0..9 : Digits[d + 1] = chars[Len(chars)])

DaysInMonth(y, m) ==
    IF m = 2
    THEN (IF (y % 4 = 0 /\ y % 100 # 0) \/ y % 400 = 0 THEN 29 ELSE 28)
    ELSE IF m \in {4, 6, 9, 11} THEN 30 ELSE 31

\* Date.parse of the text YYYY-MM-DDTHH:MM:SSZ; any other text read here is
\* not a date
ParseISO(chars) ==
    IF /\ Len(chars) = 20
       /\ chars[5] = "-" /\ chars[8] = "-" /\ chars[11] = "T"
       /\ chars[14] = ":" /\ chars[17] = ":" /\ chars[20] = "Z"
       /\ AllDigits(SubSeq(chars, 1, 4)) /\ AllDigits(SubSeq(chars, 6, 7))
       /\ AllDigits(SubSeq(chars, 9, 10)) /\ AllDigits(SubSeq(chars, 12, 13))
       /\ AllDigits(SubSeq(chars, 15, 16)) /\ AllDigits(SubSeq(chars, 18, 19))
    THEN LET y  == DigitsToNat(SubSeq(chars, 1, 4))
             m  == DigitsToNat(SubSeq(chars, 6, 7))
             d  == DigitsToNat(SubSeq(chars, 9, 10))
             hh == DigitsToNat(SubSeq(chars, 12, 13))
             mi == DigitsToNat(SubSeq(chars, 15, 16))
             ss == DigitsToNat(SubSeq(chars, 18, 19))
         IN  IF m \in 1..12 /\ d >= 1 /\ d <= DaysInMonth(y, m)
                /\ hh <= 23 /\ mi <= 59 /\ ss <= 59
             THEN [valid |-> TRUE, day |-> DaysFromCivil(y, m, d),
                   ms |-> ((hh * 60 + mi) * 60 + ss) * 1000]
             ELSE InvalidDate
    ELSE InvalidDate

\* new Date(value): undefined gives the invalid date, null the epoch, a
\* number that many milliseconds, a string what Date.parse makes of it
NewDate(value) ==
    CASE value.kind = "undefined" -> InvalidDate
      [] value.kind = "null"      -> [valid |-> TRUE, day |-> 0, ms |-> 0]
      [] value.kind = "boolean"   -> [valid |-> TRUE, day |-> 0, ms |-> value.num]
      [] value.kind = "number"    -> [valid |-> TRUE, day |-> value.num \div msPerDay,
                                      ms |-> value.num % msPerDay]
      [] value.kind = "string"    -> ParseISO(value.chars)

\* a - b for two valid dates, in milliseconds
DateDiff(a, b) == (a.day - b.day) * msPerDay + (a.ms - b.ms)

Pad(n, width) ==
    LET t == NatToChars(n)
    IN  [i \in 1..(width - Len(t)) |-> "0"] \o t

\* date.toISOString() of a valid date
toISOString(date) ==
    LET c == CivilFromDays(date.day)
        s == date.ms \div 1000
    IN  Pad(c[1], 4) \o <<"-">> \o Pad(c[2], 2) \o <<"-">> \o Pad(c[3], 2) \o <<"T">>
        \o Pad(s \div 3600, 2) \o <<":">> \o Pad((s \div 60) % 60, 2) \o <<":">>
        \o Pad(s % 60, 2) \o <<".">> \o Pad(date.ms % 1000, 3) \o <<"Z">>

\* String(value) of a truthy value, as a template literal inserts it
ToStringJS(value) ==
    CASE value.kind = "string"  -> value.chars
      [] value.kind = "number"  -> NatToChars(value.num)
      [] value.kind = "boolean" -> <<"t","r","u","e">>

unknownText == <<"u","n","k","n","o","w","n">>

\* the hex md5 digest of a text; different texts have different digests,
\* so the digest is represented by the text it was made of
md5hex(text) == [md5 |-> text]

\* the fingerprint with ?? in place of ||: only undefined and null are
\* replaced by 'unknown'
createFingerprint_Nullish(ip, userAgent) ==
    md5hex((IF ip.kind \in {"undefined", "null"} THEN unknownText
            ELSE IF ip.kind = "string" THEN ip.chars ELSE NatToChars(ip.num))
           \o <<"|">>
           \o (IF userAgent.kind \in {"undefined", "null"} THEN unknownText
               ELSE IF userAgent.kind = "string" THEN userAgent.chars
               ELSE NatToChars(userAgent.num)))

\* _createFingerprint
createFingerprint(ip, userAgent) ==
    md5hex((IF Truthy(ip) THEN ToStringJS(ip) ELSE unknownText)
           \o <<"|">>
           \o (IF Truthy(userAgent) THEN ToStringJS(userAgent) ELSE unknownText))

\* a quotient of two integers kept exact, in lowest terms
RECURSIVE GCD(_, _)
GCD(a, b) == IF b = 0 THEN a ELSE GCD(b, a % b)

Ratio(num, den) ==
    LET g == GCD(IF num < 0 THEN -num ELSE num, den)
    IN  IF num = 0 THEN [num |-> 0, den |-> 1] ELSE [num |-> num \div g, den |-> den \div g]

RECURSIVE SumSeq(_)
SumSeq(numbers) ==
    IF numbers = <<>> THEN 0 ELSE numbers[1] + SumSeq(Tail(numbers))

\* _average: 0 for an empty list
average(numbers) ==
    IF Len(numbers) = 0 THEN Ratio(0, 1) ELSE Ratio(SumSeq(numbers), Len(numbers))

\* (num / den).toFixed(2) for den > 0 and num >= 0
toFixed2(num, den) ==
    LET h == (2 * num * 100 + den) \div (2 * den)
    IN  Str(NatToChars(h \div 100) \o <<".">>
            \o <<Digits[((h % 100) \div 10) + 1], Digits[(h % 10) + 1]>>)

\* _formatDuration of a non-negative quotient of milliseconds
formatDuration(ms) ==
    LET seconds == ms.num \div (ms.den * 1000)
        minutes == seconds \div 60
        hours   == minutes \div 60
    IN  IF hours > 0
        THEN NatToChars(hours) \o <<"h"," ">> \o NatToChars(minutes % 60) \o <<"m">>
        ELSE IF minutes > 0
        THEN NatToChars(minutes) \o <<"m"," ">> \o NatToChars(seconds % 60) \o <<"s">>
        ELSE NatToChars(seconds) \o <<"s">>

\* the bounce rate counting sessions of at most two pages
calculateBounceRate_AtMostTwo(pagesPerSession) ==
    toFixed2Percent(Cardinality({i \in 1..Len(pagesPerSession) : pagesPerSession[i] <= 2}),
                    Len(pagesPerSession))

\* _calculateBounceRate
calculateBounceRate(pagesPerSession) ==
    toFixed2Percent(Cardinality({i \in 1..Len(pagesPerSession) : pagesPerSession[i] = 1}),
                    Len(pagesPerSession))

sessionTimeout == 30 * 60 * 1000

\* entry.path || entry.url
PathOrUrl(entry) == IF Truthy(entry.path) THEN entry.path ELSE entry.url

\* the first loop grouping only the consecutive entries of a fingerprint
RECURSIVE groupVisits_Consecutive(_, _, _)
groupVisits_Consecutive(entries, k, groups) ==
    IF k > Len(entries) THEN groups
    ELSE LET entry == entries[k]
             fingerprint == createFingerprint(entry.ip, entry.userAgent)
             visit == [timestamp |-> NewDate(entry.timestamp), path |-> PathOrUrl(entry)]
         IN  groupVisits_Consecutive(entries, k + 1,
                IF Len(groups) > 0 /\ groups[Len(groups)].fingerprint = fingerprint
                THEN [groups EXCEPT ![Len(groups)].visits = Append(@, visit)]
                ELSE Append(groups, [fingerprint |-> fingerprint, visits |-> <<visit>>]))

\* the first loop of _calculateSessions: the visits of each fingerprint in
\* input order, the fingerprints in order of first appearance
RECURSIVE groupVisits(_, _, _)
groupVisits(entries, k, groups) ==
    IF k > Len(entries) THEN groups
    ELSE LET entry == entries[k]
             fingerprint == createFingerprint(entry.ip, entry.userAgent)
             visit == [timestamp |-> NewDate(entry.timestamp), path |-> PathOrUrl(entry)]
         IN  groupVisits(entries, k + 1,
                IF \E g \in 1..Len(groups) : groups[g].fingerprint = fingerprint
                THEN [g \in 1..Len(groups) |->
                        IF groups[g].fingerprint = fingerprint
                        THEN [groups[g] EXCEPT !.visits = Append(@, visit)]
                        ELSE groups[g]]
                ELSE Append(groups, [fingerprint |-> fingerprint, visits |-> <<visit>>]))

\* the sort keeping one visit of each timestamp only
RECURSIVE sortVisits_Distinct(_)
sortVisits_Distinct(visits) ==
    IF Len(visits) <= 1 THEN visits
    ELSE LET front == sortVisits_Distinct(SubSeq(visits, 1, Len(visits) - 1))
             last  == visits[Len(visits)]
             n     == Cardinality({i \in 1..Len(front) :
                                     DateDiff(front[i].timestamp, last.timestamp) <= 0})
         IN  IF \E i \in 1..Len(front) : DateDiff(front[i].timestamp, last.timestamp) = 0
             THEN front
             ELSE SubSeq(front, 1, n) \o <<last>> \o SubSeq(front, n + 1, Len(front))

\* visits.sort((a, b) => a.timestamp - b.timestamp): a stable sort, here
\* by insertion behind the visits that are not later
RECURSIVE sortVisits(_)
sortVisits(visits) ==
    IF Len(visits) <= 1 THEN visits
    ELSE LET front == sortVisits(SubSeq(visits, 1, Len(visits) - 1))
             last  == visits[Len(visits)]
             n     == Cardinality({i \in 1..Len(front) :
                                     DateDiff(front[i].timestamp, last.timestamp) <= 0})
         IN  SubSeq(front, 1, n) \o <<last>> \o SubSeq(front, n + 1, Len(front))

\* the walk cutting a session at a gap of at least the timeout
RECURSIVE walkVisits_AtLeast(_, _, _, _, _)
walkVisits_AtLeast(visits, i, sessionStart, sessionPages, acc) ==
    IF i > Len(visits)
    THEN [durations |-> Append(acc.durations,
                               DateDiff(visits[Len(visits)].timestamp, sessionStart)),
          pages |-> Append(acc.pages, sessionPages)]
    ELSE IF DateDiff(visits[i].timestamp, visits[i - 1].timestamp) >= sessionTimeout
    THEN walkVisits_AtLeast(visits, i + 1, visits[i].timestamp, 1,
            [durations |-> Append(acc.durations,
                                  DateDiff(visits[i - 1].timestamp, sessionStart)),
             pages |-> Append(acc.pages, sessionPages)])
    ELSE walkVisits_AtLeast(visits, i + 1, sessionStart, sessionPages + 1, acc)

\* the for loop of one visitor from index i on (0-based i of the source is
\* i - 1 here), with the push of the last session at its end
RECURSIVE walkVisits(_, _, _, _, _)
walkVisits(visits, i, sessionStart, sessionPages, acc) ==
    IF i > Len(visits)
    THEN [durations |-> Append(acc.durations,
                               DateDiff(visits[Len(visits)].timestamp, sessionStart)),
          pages |-> Append(acc.pages, sessionPages)]
    ELSE IF DateDiff(visits[i].timestamp, visits[i - 1].timestamp) > sessionTimeout
    THEN walkVisits(visits, i + 1, visits[i].timestamp, 1,
            [durations |-> Append(acc.durations,
                                  DateDiff(visits[i - 1].timestamp, sessionStart)),
             pages |-> Append(acc.pages, sessionPages)])
    ELSE walkVisits(visits, i + 1, sessionStart, sessionPages + 1, acc)

\* the loop over the visitors with sessionPages starting at 0
RECURSIVE walkGroups_FromZero(_, _, _)
walkGroups_FromZero(groups, g, acc) ==
    IF g > Len(groups) THEN acc
    ELSE LET visits == sortVisits(groups[g].visits)
         IN  walkGroups_FromZero(groups, g + 1,
                                 walkVisits(visits, 2, visits[1].timestamp, 0, acc))

\* Object.values(visitorSessions).forEach: sessionDurations and
\* pagesPerSession after the visitors from g on
RECURSIVE walkGroups(_, _, _)
walkGroups(groups, g, acc) ==
    IF g > Len(groups) THEN acc
    ELSE LET visits == sortVisits(groups[g].visits)
         IN  walkGroups(groups, g + 1, walkVisits(visits, 2, visits[1].timestamp, 1, acc))

\* sessionDurations and pagesPerSession as the two loops of
\* _calculateSessions leave them; totalSessions is their length
sessionLists(entries) ==
    walkGroups(groupVisits(entries, 1, <<>>), 1, [durations |-> <<>>, pages |-> <<>>])

\* _calculateSessions, for entries whose timestamps are valid dates
calculateSessions(entries) ==
    LET lists == sessionLists(entries)
    IN  [total |-> Len(lists.durations),
         avgDuration |-> average(lists.durations),
         avgDurationFormatted |-> formatDuration(average(lists.durations)),
         avgPagesPerSession |-> LET a == average(lists.pages) IN toFixed2(a.num, a.den),
         bounceRate |-> calculateBounceRate(lists.pages)]

---------------------------------------------------------------------------
(* The metrics of processLogs.  A JavaScript object used as a tally (its    *)
(* keys here are paths, host names, names and dates, never integers) is the *)
(* sequence of its properties in insertion order.                           *)

Min(a, b) == IF a < b THEN a ELSE b

\* items.slice(0, n)
Slice(items, n) == SubSeq(items, 1, Min(n, Len(items)))

\* the tally of the keys of pairs from index k on: count and visitor set
\* of each key, the keys in order of first appearance
RECURSIVE tallyFrom(_, _, _)
tallyFrom(pairs, k, acc) ==
    IF k > Len(pairs) THEN acc
    ELSE LET p == pairs[k]
         IN  tallyFrom(pairs, k + 1,
                IF \E i \in 1..Len(acc) : acc[i].key = p.key
                THEN [i \in 1..Len(acc) |->
                        IF acc[i].key = p.key
                        THEN [acc[i] EXCEPT !.count = @ + 1,
                                            !.uniqueVisitors = @ \cup {p.fingerprint}]
                        ELSE acc[i]]
                ELSE Append(acc, [key |-> p.key, count |-> 1,
                                  uniqueVisitors |-> {p.fingerprint}]))

\* items.sort((a, b) => b[field] - a[field]): a stable sort, here by
\* insertion behind the items that are not smaller
RECURSIVE sortDescending(_, _)
sortDescending(items, field) ==
    IF Len(items) <= 1 THEN items
    ELSE LET front == sortDescending(SubSeq(items, 1, Len(items) - 1), field)
             last  == items[Len(items)]
             n     == Cardinality({i \in 1..Len(front) : front[i][field] >= last[field]})
         IN  SubSeq(front, 1, n) \o <<last>> \o SubSeq(front, n + 1, Len(front))

fingerprintOf(entry) == createFingerprint(entry.ip, entry.userAgent)

\* _calculateVisitors
calculateVisitors(entries) ==
    LET uniqueIPs == {entries[i].ip : i \in {j \in 1..Len(entries) : Truthy(entries[j].ip)}}
        uniqueFingerprints == {fingerprintOf(entries[i]) : i \in 1..Len(entries)}
    IN  [byIP |-> Cardinality(uniqueIPs),
         byFingerprint |-> Cardinality(uniqueFingerprints),
         recommended |-> Cardinality(uniqueFingerprints),
         details |-> [method |-> "IP + User-Agent fingerprinting", confidence |-> "medium"]]

httpScheme == <<"h","t","t","p",":","/","/">>

httpsScheme == <<"h","t","t","p","s",":","/","/">>

\* the first index from `from` on whose character is in stops, or one past
\* the end
FirstOf(chars, stops, from) ==
    IF \E i \in from..Len(chars) : chars[i] \in stops
    THEN CHOOSE i \in from..Len(chars) :
            /\ chars[i] \in stops
            /\ \A j \in from..(i - 1) : chars[j] \notin stops
    ELSE Len(chars) + 1

\* new URL(chars) for the texts read here, which are http(s) URLs or have
\* no scheme at all: a text without scheme or without host is not a URL
ParseURL(chars) ==
    LET start == IF StartsWith(chars, httpsScheme) THEN Len(httpsScheme) + 1
                 ELSE IF StartsWith(chars, httpScheme) THEN Len(httpScheme) + 1
                 ELSE 0
        hostEnd == FirstOf(chars, {"/", "?", "#", ":"}, start)
        pathStart == FirstOf(chars, {"/", "?", "#"}, start)
        pathEnd == FirstOf(chars, {"?", "#"}, pathStart)
    IN  IF start = 0 \/ hostEnd = start
        THEN [ok |-> FALSE, hostname |-> <<>>, pathname |-> <<>>]
        ELSE [ok |-> TRUE,
              hostname |-> [i \in 1..(hostEnd - start) |-> ToLower(chars[start + i - 1])],
              pathname |-> IF pathStart > Len(chars) \/ chars[pathStart] # "/"
                           THEN <<"/">>
                           ELSE SubSeq(chars, pathStart, pathEnd - 1)]

\* _normalizePath: the pathname of url resolved against http://dummy.com
normalizePath(url) ==
    IF ~Truthy(url) THEN <<"/">>
    ELSE LET chars == ToStringJS(url)
             parsed == ParseURL(chars)
             pathEnd == FirstOf(chars, {"?", "#"}, 1)
         IN  IF parsed.ok THEN parsed.pathname
             ELSE IF chars[1] = "/" THEN SubSeq(chars, 1, pathEnd - 1)
             ELSE <<"/">> \o SubSeq(chars, 1, pathEnd - 1)

directText == <<"D","i","r","e","c","t">>

\* _extractHostname: the catch block returns the text as it came
extractHostname(url) ==
    IF ~Truthy(url) \/ StrictEqStr(url, directText) THEN directText
    ELSE LET parsed == ParseURL(ToStringJS(url))
         IN  IF parsed.ok THEN parsed.hostname ELSE ToStringJS(url)

\* pattern.test(userAgent) for an alternation of literals with the i flag
TestAny(patterns, userAgent) == \E p \in patterns : RegexTestI(p, userAgent)

mobileKeywords ==
    { <<"m","o","b","i","l","e">>, <<"a","n","d","r","o","i","d">>,
      <<"i","p","h","o","n","e">>, <<"i","p","o","d">>,
      <<"b","l","a","c","k","b","e","r","r","y">>, <<"i","e","m","o","b","i","l","e">> }

tabletKeywords == { <<"t","a","b","l","e","t">>, <<"i","p","a","d">> }

desktopKeywords ==
    { <<"m","o","z","i","l","l","a">>, <<"c","h","r","o","m","e">>,
      <<"s","a","f","a","r","i">>, <<"f","i","r","e","f","o","x">>,
      <<"o","p","e","r","a">>, <<"e","d","g","e">> }

\* the device with the tablet keywords tested before the mobile ones
detectDevice_TabletFirst(userAgent) ==
    IF TestAny(tabletKeywords, userAgent) THEN "tablet"
    ELSE IF TestAny(mobileKeywords, userAgent) THEN "mobile"
    ELSE IF TestAny(desktopKeywords, userAgent) THEN "desktop"
    ELSE "unknown"

\* _detectDevice
detectDevice(userAgent) ==
    IF TestAny(mobileKeywords, userAgent) THEN "mobile"
    ELSE IF TestAny(tabletKeywords, userAgent) THEN "tablet"
    ELSE IF TestAny(desktopKeywords, userAgent) THEN "desktop"
    ELSE "unknown"

\* _detectBrowser
detectBrowser(userAgent) ==
    IF RegexTestI(<<"e","d","g">>, userAgent) THEN "Edge"
    ELSE IF RegexTestI(<<"c","h","r","o","m","e">>, userAgent) THEN "Chrome"
    ELSE IF RegexTestI(<<"f","i","r","e","f","o","x">>, userAgent) THEN "Firefox"
    ELSE IF /\ RegexTestI(<<"s","a","f","a","r","i">>, userAgent)
            /\ ~RegexTestI(<<"c","h","r","o","m","e">>, userAgent) THEN "Safari"
    ELSE IF TestAny({<<"o","p","e","r","a">>, <<"o","p","r">>}, userAgent) THEN "Opera"
    ELSE IF TestAny({<<"m","s","i","e">>, <<"t","r","i","d","e","n","t">>}, userAgent)
         THEN "Internet Explorer"
    ELSE "Unknown"

\* entry.userAgent || '' for the user agents read here (strings or absent)
userAgentText(entry) == IF Truthy(entry.userAgent) THEN ToStringJS(entry.userAgent) ELSE <<>>

\* _calculateImpressions
calculateImpressions(entries) ==
    LET pairs == [i \in 1..Len(entries) |->
                    [key |-> normalizePath(PathOrUrl(entries[i])),
                     fingerprint |-> fingerprintOf(entries[i])]]
        pageImpressions == tallyFrom(pairs, 1, <<>>)
        pages == sortDescending(
                    [i \in 1..Len(pageImpressions) |->
                        [path |-> pageImpressions[i].key,
                         impressions |-> pageImpressions[i].count,
                         uniqueVisitors |-> Cardinality(pageImpressions[i].uniqueVisitors),
                         avgViewsPerVisitor |->
                            toFixed2(pageImpressions[i].count,
                                     Cardinality(pageImpressions[i].uniqueVisitors))]],
                    "impressions")
    IN  [total |-> Len(entries), byPage |-> pages, topPages |-> Slice(pages, 10)]

\* date.getHours() and date.getDay() of a valid date, the process running
\* in UTC
getHours(date) == date.ms \div 3600000

getDay(date) == (date.day + 4) % 7

\* date.toISOString().split('T')[0]
dayText(date) == SubSeq(toISOString(date), 1, 10)

\* byHour.indexOf(Math.max(...byHour)) for the hours of the given dates
peakHour(dates) ==
    LET byHour == [h \in 0..23 |-> Cardinality({i \in 1..Len(dates) : getHours(dates[i]) = h})]
    IN  CHOOSE h \in 0..23 :
            /\ \A g \in 0..23 : byHour[g] <= byHour[h]
            /\ \A g \in 0..(h - 1) : byHour[g] < byHour[h]

\* the subsequence of the entries whose normalized path is path
RECURSIVE entriesOfPath(_, _)
entriesOfPath(entries, path) ==
    IF entries = <<>> THEN <<>>
    ELSE IF normalizePath(PathOrUrl(entries[1])) = path
         THEN <<entries[1]>> \o entriesOfPath(Tail(entries), path)
         ELSE entriesOfPath(Tail(entries), path)

\* _calculatePageViews, for entries whose timestamps are valid dates
calculatePageViews(entries) ==
    LET pairs == [i \in 1..Len(entries) |->
                    [key |-> normalizePath(PathOrUrl(entries[i])),
                     fingerprint |-> fingerprintOf(entries[i])]]
        pages == tallyFrom(pairs, 1, <<>>)
    IN  [i \in 1..Len(pages) |->
            LET own   == entriesOfPath(entries, pages[i].key)
                dates == [j \in 1..Len(own) |-> NewDate(own[j].timestamp)]
                byDay == {dayText(dates[j]) : j \in 1..Len(dates)}
            IN  [path |-> pages[i].key,
                 views |-> pages[i].count,
                 uniqueVisitors |-> Cardinality(pages[i].uniqueVisitors),
                 peakHour |-> peakHour(dates),
                 dailyAverage |-> toFixed2(pages[i].count, Cardinality(byDay))]]

\* entry.referer || entry.referrer || 'Direct'
refererOf(entry) ==
    IF Truthy(entry.referer) THEN entry.referer
    ELSE IF Truthy(entry.referrer) THEN entry.referrer
    ELSE Str(directText)

\* _calculateReferrers
calculateReferrers(entries) ==
    LET pairs == [i \in 1..Len(entries) |->
                    [key |-> extractHostname(refererOf(entries[i])),
                     fingerprint |-> fingerprintOf(entries[i])]]
        referrers == tallyFrom(pairs, 1, <<>>)
        sorted == sortDescending(
                    [i \in 1..Len(referrers) |->
                        [referrer |-> referrers[i].key,
                         visits |-> referrers[i].count,
                         uniqueVisitors |-> Cardinality(referrers[i].uniqueVisitors)]],
                    "visits")
    IN  [total |-> Len(sorted), top |-> Slice(sorted, 10), all |-> sorted]

deviceTypes == {"mobile", "tablet", "desktop", "unknown"}

\* _calculateDevices
calculateDevices(entries) ==
    LET devices == [d \in deviceTypes |->
                      Cardinality({i \in 1..Len(entries) :
                          detectDevice(userAgentText(entries[i])) = d})]
    IN  [counts |-> devices,
         percentages |-> [d \in deviceTypes |-> toFixed2Percent(devices[d], Len(entries))]]

\* _calculateBrowsers
calculateBrowsers(entries) ==
    LET pairs == [i \in 1..Len(entries) |->
                    [key |-> detectBrowser(userAgentText(entries[i])),
                     fingerprint |-> fingerprintOf(entries[i])]]
        browsers == tallyFrom(pairs, 1, <<>>)
        sorted == sortDescending(
                    [i \in 1..Len(browsers) |->
                        [browser |-> browsers[i].key,
                         count |-> browsers[i].count,
                         percentage |-> toFixed2Percent(browsers[i].count, Len(entries))]],
                    "count")
    IN  [total |-> Len(sorted), breakdown |-> sorted, top |-> Slice(sorted, 5)]

unknownPlace == <<"U","n","k","n","o","w","n">>

\* entry[field] || 'Unknown'
placeOf(entry, field) ==
    IF Truthy(entry[field]) THEN ToStringJS(entry[field]) ELSE unknownPlace

\* the ten most frequent values of entry[field], as [name, count]
topPlaces(entries, field) ==
    LET pairs == [i \in 1..Len(entries) |->
                    [key |-> placeOf(entries[i], field),
                     fingerprint |-> fingerprintOf(entries[i])]]
        places == tallyFrom(pairs, 1, <<>>)
    IN  Slice(sortDescending([i \in 1..Len(places) |->
                                [name |-> places[i].key, count |-> places[i].count]],
                             "count"), 10)

\* _calculateGeography
calculateGeography(entries) ==
    [countries |-> topPlaces(entries, "country"), cities |-> topPlaces(entries, "city")]

\* the number read from a date text YYYY-MM-DD; texts of this form are
\* ordered by localeCompare as these numbers are
dayOrder(text) ==
    DigitsToNat(SubSeq(text, 1, 4) \o SubSeq(text, 6, 7) \o SubSeq(text, 9, 10))

\* items.sort((a, b) => a.date.localeCompare(b.date))
RECURSIVE sortByDate(_)
sortByDate(items) ==
    IF Len(items) <= 1 THEN items
    ELSE LET front == sortByDate(SubSeq(items, 1, Len(items) - 1))
             last  == items[Len(items)]
             n     == Cardinality({i \in 1..Len(front) :
                                     dayOrder(front[i].date) <= dayOrder(last.date)})
         IN  SubSeq(front, 1, n) \o <<last>> \o SubSeq(front, n + 1, Len(front))

weekdays == <<"Sun", "Mon", "Tue", "Wed", "Thu", "Fri", "Sat">>

\* _calculateTimeline, for entries whose timestamps are valid dates
calculateTimeline(entries) ==
    LET dates == [i \in 1..Len(entries) |-> NewDate(entries[i].timestamp)]
        pairs == [i \in 1..Len(entries) |->
                    [key |-> dayText(dates[i]), fingerprint |-> fingerprintOf(entries[i])]]
        byDay == tallyFrom(pairs, 1, <<>>)
    IN  [daily |-> sortByDate([i \in 1..Len(byDay) |->
                                  [date |-> byDay[i].key, count |-> byDay[i].count]]),
         hourly |-> [h \in 1..24 |->
                       [hour |-> h - 1,
                        count |-> Cardinality({i \in 1..Len(dates) :
                                                 getHours(dates[i]) = h - 1})]],
         weekday |-> [d \in 1..7 |->
                        [day |-> weekdays[d],
                         count |-> Cardinality({i \in 1..Len(dates) :
                                                  getDay(dates[i]) = d - 1})]]]

NoDateRange == [kind |-> "null", start |-> <<>>, end |-> <<>>, days |-> 0]

\* the earliest and the latest of a non-empty list of valid dates
earliest(dates) ==
    dates[CHOOSE i \in 1..Len(dates) : \A j \in 1..Len(dates) : DateDiff(dates[i], dates[j]) <= 0]

latest(dates) ==
    dates[CHOOSE i \in 1..Len(dates) : \A j \in 1..Len(dates) : DateDiff(dates[i], dates[j]) >= 0]

\* _getDateRange, for entries whose timestamps are valid dates: null for no
\* entries, else the first and the last of the sorted dates and the days
\* between them, rounded up
getDateRange(entries) ==
    IF Len(entries) = 0 THEN NoDateRange
    ELSE LET dates == [i \in 1..Len(entries) |-> NewDate(entries[i].timestamp)]
             span  == DateDiff(latest(dates), earliest(dates))
         IN  [kind |-> "object",
              start |-> toISOString(earliest(dates)),
              end |-> toISOString(latest(dates)),
              days |-> (span + msPerDay - 1) \div msPerDay]

RangeError == [name |-> "RangeError", message |-> "Invalid time value"]

TypeError == [name |-> "TypeError", message |-> "Cannot read properties of undefined"]

\* the filtering step run through the classifier whether there is one or not
filterStep_AlwaysFilter(filter, entries) == filterLogs(entries)

\* the filtering step of processLogs: the classifier's partition, or every
\* entry taken as legitimate when there is no classifier
filterStep(filter, entries) ==
    IF filter
    THEN filterLogs(entries)
    ELSE Return([total |-> Len(entries), legitimate |-> entries, bots |-> <<>>,
                 stats |-> [botPercentage |-> Undefined, detectionMethods |-> EmptyObject]])

\* filteredLogs.stats?.botPercentage || 0
botPercentageOf(filteredLogs) ==
    IF Truthy(filteredLogs.stats.botPercentage) THEN filteredLogs.stats.botPercentage
    ELSE Num(0)

\* the object literal of processLogs, for legitimate entries whose
\* timestamps are valid dates
buildAnalytics(filteredLogs) ==
    LET legitimateEntries == filteredLogs.legitimate
    IN  [overview |-> [totalRequests |-> Len(legitimateEntries),
                       totalBots |-> Len(filteredLogs.bots),
                       botPercentage |-> botPercentageOf(filteredLogs),
                       dateRange |-> getDateRange(legitimateEntries)],
         visitors |-> calculateVisitors(legitimateEntries),
         impressions |-> calculateImpressions(legitimateEntries),
         sessions |-> calculateSessions(legitimateEntries),
         pages |-> calculatePageViews(legitimateEntries),
         referrers |-> calculateReferrers(legitimateEntries),
         devices |-> calculateDevices(legitimateEntries),
         browsers |-> calculateBrowsers(legitimateEntries),
         geography |-> calculateGeography(legitimateEntries),
         timeline |-> calculateTimeline(legitimateEntries)]

\* the input array after processLogs: the filtering step apart, the entries
\* are only read (_getDateRange sorts the array map made, _calculateSessions
\* the visits it built)
inputAfterProcessLogs(filter, entries) ==
    IF filter THEN inputAfterFilterLogs(entries) ELSE entries

\* some legitimate entry has a timestamp that is no date
HasInvalidDate(entries) ==
    \E i \in 1..Len(entries) : ~NewDate(entries[i].timestamp).valid

\* processLogs of a reconstructor built with (filter = TRUE) or without a
\* BotFilter.  A TypeError of filterLogs passes through.  With an invalid
\* date among the legitimate entries toISOString throws a RangeError, in
\* _getDateRange when the sort leaves that date first or last, and in
\* _calculatePageViews (line 566) otherwise.
processLogs(filter, entries) ==
    LET filteredLogs == filterStep(filter, entries)
    IN  IF filteredLogs.threw THEN Throw(TypeError)
        ELSE IF HasInvalidDate(filteredLogs.value.legitimate) THEN Throw(RangeError)
        ELSE Return(buildAnalytics(filteredLogs.value))

---------------------------------------------------------------------------
(* WaybackFetcher (archive/WaybackFetcher.js, first class) as driven by    *)
(* FontScraper.scanHistorical.  log is the sequence of what the fetcher    *)
(* did: requests sent, delays waited, failures reported.                   *)

requestDelay == 2000

maxRetries == 3

\* the fetcher before a scan: constructed with the default options
NoFetcher ==
    [pc |-> "idle", requestDelay |-> requestDelay, maxRetries |-> maxRetries,
     yearsBack |-> 0, i |-> 0, snapshots |-> <<>>, k |-> 0, redirects |-> 0,
     results |-> <<>>, log |-> <<>>]

---------------------------------------------------------------------------
(* Inputs of isBot.                                                        *)

UserAgents ==
    { Undefined, Null, Str(<<>>), Num(42),
      Str(<<"G","o","o","g","l","e","b","o","t","/","2",".","1">>),
      Str(<<"c","u","r","l","/","7",".","6","8",".","0">>),
      Str(<<"R","O","B","O","T">>),
      Str(<<"M","o","z","i","l","l","a","/","5",".","0"," ","C","h","r","o","m","e","/","1","2","0">>) }

IPs ==
    { Undefined, Str(<<>>), Num(7),
      Str(<<"6","6",".","2","4","9",".","6","4",".","1">>),
      Str(<<"4","0",".","7","7",".","1","6","7",".","5">>),
      Str(<<"1","5","7",".","5","5",".","3","9",".","1">>),
      Str(<<"2","0","7",".","4","6",".","1","3",".","9">>),
      Str(<<"1","9","2",".","1","6","8",".","1",".","1">>),
      Str(<<"3","5",".","1",".","2",".","3">>),
      Str(<<"1","6","6",".","2","4","9",".","6",".","1">>),
      Str(<<"6","6",".","2","4">>) }

NoHeaders == [kind |-> "undefined", acceptLanguage |-> Undefined, referer |-> Undefined]

Headers ==
    { NoHeaders } \cup
    [kind : {"object"},
     acceptLanguage : {Undefined, Str(<<"e","n","-","U","S">>)},
     referer : {Undefined, Str(<<"h","t","t","p","s",":","/","/","a",".","b","/">>)}]

NoSession ==
    [kind |-> "undefined", requestsPerMinute |-> Undefined, duration |-> Undefined,
     hasJavaScript |-> Undefined, accessPattern |-> Undefined,
     perfectTiming |-> Undefined, errorRate |-> Undefined,
     requestCount |-> Undefined, headers |-> NoHeaders]

Sessions ==
    { NoSession } \cup
    [kind : {"object"},
     requestsPerMinute : {Undefined, Num(100), Num(101)},
     duration : {Num(1999), Num(2000)},
     hasJavaScript : {Undefined, Bool(TRUE)},
     accessPattern : {Str(<<"s","e","q","u","e","n","t","i","a","l">>),
                      Str(<<"r","a","n","d","o","m">>)},
     perfectTiming : {Bool(TRUE), Bool(FALSE)},
     errorRate : {Num(0), Num(1)},
     requestCount : {Num(5), Num(6), Num(50), Num(51)},
     headers : Headers]

Requests == [userAgent : UserAgents, ip : IPs, session : Sessions]

---------------------------------------------------------------------------
(* One call of isBot on an arbitrary request.                              *)

NotCalled == Return(emptyVerdict)

NoResults ==
    Return([total |-> 0, legitimate |-> <<>>, bots |-> <<>>,
            stats |-> [botPercentage |-> Num(0), detectionMethods |-> EmptyObject]])

NoSessions ==
    [total |-> 0, avgDuration |-> [num |-> 0, den |-> 1], avgDurationFormatted |-> <<>>,
     avgPagesPerSession |-> Undefined, bounceRate |-> Undefined]

NoFingerprints == <<>>

NotProcessed == Return(<<>>)

NoDevices ==
    [counts |-> [d \in deviceTypes |-> 0], percentages |-> [d \in deviceTypes |-> Undefined]]

\* the fields of a BotFilter as its constructor sets them
NewBotFilter ==
    [botPatterns |-> botPatterns, botIPRanges |-> botIPRanges,
     suspiciousPatterns |-> suspiciousPatterns]

\* the device tally, the BotFilter's fields and the fetcher, which the calls
\* of isBot, filterLogs, processLogs and their helpers do not write
idleVars == <<deviceTally, classifier, fetcher>>

Idle ==
    /\ deviceTally = NoDevices
    /\ classifier = NewBotFilter
    /\ fetcher = NoFetcher

reconstructorVars == <<botFilter, analytics, sessions, fingerprints, history>>

\* no AnalyticsReconstructor is in use
NoReconstructor ==
    /\ botFilter = TRUE
    /\ analytics = NotProcessed
    /\ sessions = NoSessions
    /\ fingerprints = NoFingerprints
    /\ history = <<>>

Init ==
    /\ pc = "isBot"
    /\ request \in Requests
    /\ outcome = NotCalled
    /\ logEntries = <<>>
    /\ results = NoResults
    /\ NoReconstructor
    /\ Idle

IsBotCall ==
    /\ pc = "isBot"
    /\ outcome' = isBot(request)
    /\ pc' = IF outcome'.threw THEN "threw" ELSE "returned"
    /\ UNCHANGED <<request, logEntries, results>>
    /\ UNCHANGED reconstructorVars
    /\ UNCHANGED idleVars

Next == IsBotCall

Spec == Init /\ [][Next]_vars

---------------------------------------------------------------------------
(* One call of filterLogs on an arbitrary array of at most MaxEntries      *)
(* entries.                                                                *)

MaxEntries == 3

ChromeUA ==
    Str(<<"M","o","z","i","l","l","a","/","5",".","0"," ","C","h","r","o","m","e","/","1","2","0">>)

HomeIP == Str(<<"1","9","2",".","1","6","8",".","1",".","1">>)

\* a session with a headers object that triggers rate, duration and
\* JavaScript (score 75)
BotSession ==
    [kind |-> "object", requestsPerMinute |-> Num(101), duration |-> Num(1999),
     hasJavaScript |-> Undefined,
     accessPattern |-> Str(<<"r","a","n","d","o","m">>), perfectTiming |-> Bool(FALSE),
     errorRate |-> Num(1), requestCount |-> Num(5),
     headers |-> [kind |-> "object", acceptLanguage |-> Str(<<"e","n","-","U","S">>),
                  referer |-> Undefined]]

\* a session that triggers the duration indicator only (score 20)
HumanSession == [BotSession EXCEPT !.requestsPerMinute = Num(100),
                                   !.hasJavaScript = Bool(TRUE)]

\* a session summary without a headers object
BareSession == [BotSession EXCEPT !.headers = NoHeaders]

Entries ==
    { [userAgent |-> ChromeUA, ip |-> HomeIP, session |-> NoSession,
       path |-> Str(<<"/">>)],
      [userAgent |-> ChromeUA, ip |-> HomeIP, session |-> NoSession,
       path |-> Str(<<"/","a","b","o","u","t">>)],
      [userAgent |-> Str(<<"G","o","o","g","l","e","b","o","t","/","2",".","1">>),
       ip |-> Str(<<"6","6",".","2","4","9",".","6","4",".","1">>),
       session |-> NoSession, path |-> Str(<<"/","s","i","t","e","m","a","p",".","x","m","l">>)],
      [userAgent |-> ChromeUA,
       ip |-> Str(<<"1","5","7",".","5","5",".","3","9",".","1">>),
       session |-> NoSession, path |-> Str(<<"/">>)],
      [userAgent |-> ChromeUA, ip |-> HomeIP, session |-> BotSession,
       path |-> Str(<<"/">>)],
      [userAgent |-> ChromeUA, ip |-> HomeIP, session |-> HumanSession,
       path |-> Str(<<"/">>)],
      [userAgent |-> ChromeUA, ip |-> HomeIP, session |-> BareSession,
       path |-> Str(<<"/">>)],
      [userAgent |-> Undefined, ip |-> Undefined, session |-> NoSession,
       path |-> Undefined] }

EntryArrays == UNION { [1..n -> Entries] : n \in 0..MaxEntries }

InitFilterLogs ==
    /\ pc = "filterLogs"
    /\ logEntries \in EntryArrays
    /\ request = [userAgent |-> Undefined, ip |-> Undefined, session |-> NoSession]
    /\ outcome = NotCalled
    /\ results = NoResults
    /\ NoReconstructor
    /\ Idle

FilterLogsCall ==
    /\ pc = "filterLogs"
    /\ results' = filterLogs(logEntries)
    /\ pc' = IF results'.threw THEN "filterThrew" ELSE "filtered"
    /\ logEntries' = inputAfterFilterLogs(logEntries)
    /\ UNCHANGED <<request, outcome>>
    /\ UNCHANGED reconstructorVars
    /\ UNCHANGED idleVars

NextFilterLogs == FilterLogsCall

SpecFilterLogs == InitFilterLogs /\ [][NextFilterLogs]_vars

---------------------------------------------------------------------------
(* Properties of isBot                                                     *)

Called == pc \in {"returned", "threw"}

verdict == outcome.value

\* the user agent is a string that some signature matches
MatchesSignature(userAgent) ==
    /\ userAgent.kind = "string"
    /\ \E k \in 1..Len(botPatterns) : RegexTestI(botPatterns[k], userAgent.chars)

\* the ip is a string that begins with one of the four known prefixes
HasKnownBotPrefix(ip) ==
    /\ ip.kind = "string"
    /\ \E k \in 1..Len(knownBotIPs) :
          /\ Len(ip.chars) >= Len(knownBotIPs[k])
          /\ SubSeq(ip.chars, 1, Len(knownBotIPs[k])) = knownBotIPs[k]

\* the score the seven indicators add up to, each taken on its own
IndicatorScore(session) ==
      (IF session.requestsPerMinute.kind = "number" /\ session.requestsPerMinute.num > 100
       THEN 30 ELSE 0)
    + (IF session.duration.kind = "number" /\ session.duration.num < 2000 THEN 20 ELSE 0)
    + (IF ~Truthy(session.hasJavaScript) THEN 25 ELSE 0)
    + (IF session.accessPattern = Str(<<"s","e","q","u","e","n","t","i","a","l">>)
          /\ Truthy(session.perfectTiming) THEN 25 ELSE 0)
    + (IF session.errorRate = Num(0) /\ session.requestCount.kind = "number"
          /\ session.requestCount.num > 50 THEN 15 ELSE 0)
    + (IF ~Truthy(session.headers.acceptLanguage) THEN 10 ELSE 0)
    + (IF ~Truthy(session.headers.referer) /\ session.requestCount.kind = "number"
          /\ session.requestCount.num > 5 THEN 10 ELSE 0)

IndicatorReasons(session) ==
       (IF session.requestsPerMinute.kind = "number" /\ session.requestsPerMinute.num > 100
        THEN <<"Excessive request rate">> ELSE <<>>)
    \o (IF session.duration.kind = "number" /\ session.duration.num < 2000
        THEN <<"Suspiciously short session">> ELSE <<>>)
    \o (IF ~Truthy(session.hasJavaScript)
        THEN <<"No JavaScript execution detected">> ELSE <<>>)
    \o (IF session.accessPattern = Str(<<"s","e","q","u","e","n","t","i","a","l">>)
           /\ Truthy(session.perfectTiming)
        THEN <<"Perfect sequential access pattern">> ELSE <<>>)
    \o (IF session.errorRate = Num(0) /\ session.requestCount.kind = "number"
           /\ session.requestCount.num > 50
        THEN <<"Zero error rate with high request count">> ELSE <<>>)
    \o (IF ~Truthy(session.headers.acceptLanguage)
        THEN <<"Missing Accept-Language header">> ELSE <<>>)
    \o (IF ~Truthy(session.headers.referer) /\ session.requestCount.kind = "number"
           /\ session.requestCount.num > 5
        THEN <<"Missing Referer header on multiple requests">> ELSE <<>>)

\* the request gets past the user-agent check and the IP check
PassesIdentityChecks(req) ==
    /\ Truthy(req.userAgent)
    /\ req.userAgent.kind = "string"
    /\ ~MatchesSignature(req.userAgent)
    /\ ~Truthy(req.ip) \/ (req.ip.kind = "string" /\ ~HasKnownBotPrefix(req.ip))

\* C1: a request whose user agent matches a bot signature is answered with
\* isBot = true, confidence 95, method 'user-agent', whatever ip and session
\* are.
C1_UserAgentPrecedence ==
    (Called /\ MatchesSignature(request.userAgent)) =>
        /\ pc = "returned"
        /\ verdict.isBot
        /\ verdict.confidence = 95
        /\ verdict.method = "user-agent"

\* a signature match together with a known bot ip and a session that alone
\* would score as a bot
C1_Witness ==
    /\ pc = "returned"
    /\ MatchesSignature(request.userAgent)
    /\ HasKnownBotPrefix(request.ip)
    /\ request.session.kind = "object"
    /\ request.session.headers.kind = "object"
    /\ IndicatorScore(request.session) >= 50
    /\ verdict.method = "user-agent"

\* C2 as stated: a user agent that matches no signature and an ip with a
\* known prefix give isBot = true, confidence 85, method 'ip-range'.
C2_Original ==
    (Called /\ ~MatchesSignature(request.userAgent) /\ Truthy(request.ip)
            /\ HasKnownBotPrefix(request.ip)) =>
        /\ pc = "returned"
        /\ verdict.isBot
        /\ verdict.confidence = 85
        /\ verdict.method = "ip-range"

\* C2: a request whose user agent is a non-empty string matching no
\* signature and whose ip starts with a known bot prefix is answered with
\* isBot = true, confidence 85, method 'ip-range', whatever the session is.
C2_IpRange ==
    (Called /\ request.userAgent.kind = "string" /\ request.userAgent.chars # <<>>
            /\ ~MatchesSignature(request.userAgent) /\ Truthy(request.ip)
            /\ HasKnownBotPrefix(request.ip)) =>
        /\ pc = "returned"
        /\ verdict.isBot
        /\ verdict.confidence = 85
        /\ verdict.method = "ip-range"
        /\ verdict.reasons = <<"IP from known bot range">>

\* an ip-range verdict for a request whose session has no headers object
\* and would score as a bot: the behavioural check was not evaluated
C2_Witness ==
    /\ pc = "returned"
    /\ PassesIdentityChecks([request EXCEPT !.ip = Undefined])
    /\ HasKnownBotPrefix(request.ip)
    /\ request.session.kind = "object"
    /\ request.session.headers.kind = "undefined"
    /\ IndicatorScore(request.session) >= 50
    /\ verdict.method = "ip-range"

\* C3: for a request that passes the user-agent and IP checks and carries a
\* session, the verdict is bot / 'behavioral' with the indicator score as
\* confidence and the triggered reasons in order exactly when the score is
\* at least 50, and the empty verdict otherwise.
C3_BehavioralScore ==
    (Called /\ PassesIdentityChecks(request) /\ request.session.kind = "object") =>
        /\ pc = "returned"
        /\ verdict = IF IndicatorScore(request.session) >= 50
                     THEN [isBot |-> TRUE,
                           confidence |-> IndicatorScore(request.session),
                           reasons |-> IndicatorReasons(request.session),
                           method |-> "behavioral"]
                     ELSE emptyVerdict

\* C4: every returned verdict has a confidence between 0 and 100.
C4_ConfidenceRange ==
    pc = "returned" => verdict.confidence \in 0..100

\* C5: a verdict with isBot = false has confidence 0, no method and no
\* reasons, also when the session triggered indicators below the threshold.
C5_NotBotIsEmpty ==
    (pc = "returned" /\ ~verdict.isBot) =>
        /\ verdict.confidence = 0
        /\ verdict.method = "null"
        /\ verdict.reasons = <<>>

\* a not-bot verdict for a session scoring between 1 and 49
C5_Witness ==
    /\ pc = "returned"
    /\ ~verdict.isBot
    /\ request.session.kind = "object"
    /\ IndicatorScore(request.session) \in 1..49

\* C6: a user agent that is absent, empty or not a string is answered with
\* isBot = true by the user-agent check, whatever ip and session are.
C6_MissingUserAgent ==
    (Called /\ (request.userAgent.kind # "string" \/ request.userAgent.chars = <<>>)) =>
        /\ pc = "returned"
        /\ verdict.isBot
        /\ verdict.method = "user-agent"

\* a non-string user agent with an ip and a session on which the later
\* checks would have failed
C6_Witness ==
    /\ pc = "returned"
    /\ request.userAgent = Num(42)
    /\ request.ip = Num(7)
    /\ request.session.kind = "object"
    /\ request.session.headers.kind = "undefined"
    /\ verdict.isBot

\* C7: every verdict with isBot = true carries at least one reason.
C7_BotHasReason ==
    (pc = "returned" /\ verdict.isBot) => verdict.reasons # <<>>

\* a behavioural bot verdict with its reasons
C7_Witness ==
    /\ pc = "returned"
    /\ verdict.isBot
    /\ verdict.method = "behavioral"
    /\ Len(verdict.reasons) >= 2

---------------------------------------------------------------------------
(* Properties of filterLogs                                                *)

FilterCalled == pc \in {"filtered", "filterThrew"}

legitimate == results.value.legitimate

bots == results.value.bots

\* the entry without its botDetection annotation
Original(bot) == [f \in (DOMAIN bot) \ {"botDetection"} |-> bot[f]]

\* the elements of seq at the positions in idx, in increasing position
RECURSIVE Pick(_, _, _)
Pick(seq, idx, k) ==
    IF k > Len(seq) THEN <<>>
    ELSE (IF k \in idx THEN <<seq[k]>> ELSE <<>>) \o Pick(seq, idx, k + 1)

Occurrences(seq, x) == Cardinality({i \in 1..Len(seq) : seq[i] = x})

SameElements(a, b) ==
    /\ Len(a) = Len(b)
    /\ \A i \in 1..Len(a) : Occurrences(a, a[i]) = Occurrences(b, a[i])

\* C8: for every array of entries filterLogs returns, the two arrays
\* together hold each input entry exactly once, unchanged, and each element
\* of bots carries its verdict as botDetection.
C8_PartitionComplete ==
    FilterCalled =>
        /\ pc = "filtered"
        /\ results.value.total = Len(logEntries)
        /\ Len(legitimate) + Len(bots) = Len(logEntries)
        /\ \E B \in SUBSET (1..Len(logEntries)) :
              /\ SameElements(Pick(logEntries, (1..Len(logEntries)) \ B, 1), legitimate)
              /\ SameElements(Pick(logEntries, B, 1),
                              [j \in 1..Len(bots) |-> Original(bots[j])])
        /\ \A j \in 1..Len(bots) :
              /\ "botDetection" \in DOMAIN bots[j]
              /\ bots[j].botDetection.isBot

\* C9: filterLogs is a stable partition: legitimate and bots are the input
\* entries of two complementary sets of positions, each in input order.
C9_StablePartition ==
    pc = "filtered" =>
        \E B \in SUBSET (1..Len(logEntries)) :
            /\ legitimate = Pick(logEntries, (1..Len(logEntries)) \ B, 1)
            /\ [j \in 1..Len(bots) |-> Original(bots[j])] = Pick(logEntries, B, 1)

\* two different bot entries with a legitimate entry between them
C9_Witness ==
    /\ pc = "filtered"
    /\ Len(logEntries) = 3
    /\ Len(bots) = 2
    /\ Len(legitimate) = 1
    /\ logEntries[2] = legitimate[1]
    /\ logEntries[1] # logEntries[3]
    /\ Original(bots[1]) = logEntries[1]

MethodKeys == {"user-agent", "ip-range", "behavioral", "unknown"}

MethodKey(method) == IF method = "null" THEN "unknown" ELSE method

BotsWithMethod(m) ==
    Cardinality({j \in 1..Len(bots) : MethodKey(bots[j].botDetection.method) = m})

RECURSIVE SumCounts(_, _)
SumCounts(counts, keys) ==
    IF keys = {} THEN 0
    ELSE LET m == CHOOSE x \in keys : TRUE
         IN  counts[m] + SumCounts(counts, keys \ {m})

\* C10: after filterLogs, detectionMethods has a key exactly for the
\* methods that detected a bot entry, each with the number of elements of
\* bots detected by it, and the counts add up to bots.length.
C10_DetectionMethods ==
    pc = "filtered" =>
        LET detectionMethods == results.value.stats.detectionMethods
        IN  /\ DOMAIN detectionMethods \subseteq MethodKeys
            /\ \A m \in MethodKeys :
                  /\ m \in DOMAIN detectionMethods <=> BotsWithMethod(m) > 0
                  /\ m \in DOMAIN detectionMethods =>
                        detectionMethods[m] = BotsWithMethod(m)
            /\ SumCounts(detectionMethods, DOMAIN detectionMethods) = Len(bots)

\* two bots of one method and one of another
C10_Witness ==
    /\ pc = "filtered"
    /\ Len(bots) = 3
    /\ DOMAIN results.value.stats.detectionMethods = {"user-agent", "behavioral"}
    /\ results.value.stats.detectionMethods["user-agent"] = 2

IsDigit(c) == \E d \in 1..10 : Digits[d] = c

DigitValue(c) == (CHOOSE d \in 1..10 : Digits[d] = c) - 1

RECURSIVE CharsToNat(_)
CharsToNat(chars) ==
    IF chars = <<>> THEN 0
    ELSE 10 * CharsToNat(SubSeq(chars, 1, Len(chars) - 1)) + DigitValue(chars[Len(chars)])

\* the text is digits, a point and exactly two digits
IsFixed2(chars) ==
    /\ Len(chars) >= 4
    /\ chars[Len(chars) - 2] = "."
    /\ \A i \in (1..Len(chars)) \ {Len(chars) - 2} : IsDigit(chars[i])
    /\ Len(chars) > 4 => chars[1] # "0"

\* the number of hundredths a two-decimal text stands for
Hundredths(chars) ==
    100 * CharsToNat(SubSeq(chars, 1, Len(chars) - 3))
        + CharsToNat(SubSeq(chars, Len(chars) - 1, Len(chars)))

\* h hundredths is a nearest two-decimal value of num / den
NearestHundredths(h, num, den) ==
    LET d == h * den - 100 * num
    IN  2 * (IF d < 0 THEN -d ELSE d) <= den

\* C11: filterLogs sets botPercentage to bots.length / total * 100 written
\* with two decimals, rounded to the nearest hundredth; for total = 0 it
\* is NaN, not a default.
C11_BotPercentage ==
    pc = "filtered" =>
        LET p == results.value.stats.botPercentage
        IN  /\ p.kind = "string"
            /\ IF results.value.total = 0
               THEN p.chars = <<"N","a","N">>
               ELSE /\ IsFixed2(p.chars)
                    /\ NearestHundredths(Hundredths(p.chars), 100 * Len(bots),
                                         results.value.total)

\* two bots of three entries: 66.666... is reported as 66.67
C11_Witness ==
    /\ pc = "filtered"
    /\ results.value.total = 3
    /\ Len(bots) = 2
    /\ results.value.stats.botPercentage.chars = <<"6","6",".","6","7">>

---------------------------------------------------------------------------
(* One call of _calculateSessions on the entries of two visitors, all with *)
(* valid timestamps.                                                       *)

MaxVisits == 5

VisitorA == Str(<<"1","9","2",".","1","6","8",".","1",".","1">>)

VisitorB == Str(<<"1","0",".","0",".","0",".","7">>)

Visit(ip, timestamp) ==
    [ip |-> ip, userAgent |-> ChromeUA, timestamp |-> Str(timestamp),
     path |-> Str(<<"/">>), url |-> Undefined]

\* visitor A at 10:00, 10:10, 10:40 and 10:45; visitor B at 23:50 and at
\* 00:30 of the next day
Visits ==
    { Visit(VisitorA, <<"2","0","2","4","-","0","1","-","1","5","T","1","0",":","0","0",":","0","0","Z">>),
      Visit(VisitorA, <<"2","0","2","4","-","0","1","-","1","5","T","1","0",":","1","0",":","0","0","Z">>),
      Visit(VisitorA, <<"2","0","2","4","-","0","1","-","1","5","T","1","0",":","4","0",":","0","0","Z">>),
      Visit(VisitorA, <<"2","0","2","4","-","0","1","-","1","5","T","1","0",":","4","5",":","0","0","Z">>),
      Visit(VisitorB, <<"2","0","2","4","-","0","1","-","1","5","T","2","3",":","5","0",":","0","0","Z">>),
      Visit(VisitorB, <<"2","0","2","4","-","0","1","-","1","6","T","0","0",":","3","0",":","0","0","Z">>) }

VisitArrays == UNION { [1..n -> Visits] : n \in 0..MaxVisits }

InitSessions ==
    /\ pc = "calculateSessions"
    /\ logEntries \in VisitArrays
    /\ request = [userAgent |-> Undefined, ip |-> Undefined, session |-> NoSession]
    /\ outcome = NotCalled
    /\ results = NoResults
    /\ NoReconstructor
    /\ Idle

CalculateSessionsCall ==
    /\ pc = "calculateSessions"
    /\ sessions' = calculateSessions(logEntries)
    /\ pc' = "sessionsDone"
    /\ UNCHANGED <<request, outcome, logEntries, results,
                   botFilter, analytics, fingerprints, history>>
    /\ UNCHANGED idleVars

NextSessions == CalculateSessionsCall

SpecSessions == InitSessions /\ [][NextSessions]_vars

---------------------------------------------------------------------------
(* Properties of _calculateSessions                                        *)

\* the instant of an entry in minutes since 1970, read off its timestamp
Minute(entry) ==
    LET date == NewDate(entry.timestamp)
    IN  date.day * 1440 + date.ms \div 60000

Visitor(entry) == <<entry.ip, entry.userAgent>>

VisitorsOf(entries) == {Visitor(entries[i]) : i \in 1..Len(entries)}

MinutesOf(entries, v) ==
    {Minute(entries[i]) : i \in {j \in 1..Len(entries) : Visitor(entries[j]) = v}}

\* the minutes at which a session of visitor v starts: the first one and
\* every one more than 30 minutes after the one before it
SessionStarts(entries, v) ==
    {t \in MinutesOf(entries, v) : \A u \in MinutesOf(entries, v) : u < t => t - u > 30}

\* the events of v from minute t up to the next session start
PagesFrom(entries, v, t) ==
    Cardinality({j \in 1..Len(entries) :
        /\ Visitor(entries[j]) = v
        /\ Minute(entries[j]) >= t
        /\ \A s \in SessionStarts(entries, v) : s > t => Minute(entries[j]) < s})

RECURSIVE PagesInOrder(_, _, _)
PagesInOrder(entries, v, starts) ==
    IF starts = {} THEN <<>>
    ELSE LET t == CHOOSE x \in starts : \A y \in starts : x <= y
         IN  <<PagesFrom(entries, v, t)>> \o PagesInOrder(entries, v, starts \ {t})

\* the visitors in order of their first entry, from entry k on
RECURSIVE VisitorsInOrder(_, _, _)
VisitorsInOrder(entries, k, seen) ==
    IF k > Len(entries) THEN <<>>
    ELSE IF Visitor(entries[k]) \in seen THEN VisitorsInOrder(entries, k + 1, seen)
    ELSE <<Visitor(entries[k])>>
         \o VisitorsInOrder(entries, k + 1, seen \cup {Visitor(entries[k])})

RECURSIVE ExpectedPages(_, _)
ExpectedPages(entries, order) ==
    IF order = <<>> THEN <<>>
    ELSE PagesInOrder(entries, order[1], SessionStarts(entries, order[1]))
         \o ExpectedPages(entries, Tail(order))

RECURSIVE SumOver(_, _)
SumOver(entries, visitors) ==
    IF visitors = {} THEN 0
    ELSE LET v == CHOOSE x \in visitors : TRUE
         IN  Cardinality(SessionStarts(entries, v)) + SumOver(entries, visitors \ {v})

\* C13: with valid timestamps a visitor's event starts a new session
\* exactly when it comes more than 30 minutes after the one before it; a
\* gap of exactly 30 minutes or a tie does not.  Hence sessions.total is the
\* sum over visitors of 1 + the number of such gaps, and the page counts
\* are the numbers of events between session starts.
C13_SessionBoundary ==
    pc = "sessionsDone" =>
        /\ sessions.total = SumOver(logEntries, VisitorsOf(logEntries))
        /\ sessionLists(logEntries).pages
             = ExpectedPages(logEntries, VisitorsInOrder(logEntries, 1, {}))

\* one visitor at 10:00, 10:10 and 10:45 (given out of order): 2 sessions
\* with 2 pages and 1 page
C13_Witness ==
    /\ pc = "sessionsDone"
    /\ Len(logEntries) = 3
    /\ \A i \in 1..3 : logEntries[i].ip = VisitorA
    /\ {Minute(logEntries[i]) - Minute(logEntries[3]) : i \in 1..3} = {0, 10, 45}
    /\ sessions.total = 2
    /\ sessionLists(logEntries).pages = <<2, 1>>

\* C14: bounceRate is 100 * (sessions of exactly one page) / (sessions)
\* written with two decimals, rounded to the nearest hundredth.
C14_BounceRate ==
    (pc = "sessionsDone" /\ sessions.total > 0) =>
        LET pages == ExpectedPages(logEntries, VisitorsInOrder(logEntries, 1, {}))
            bounces == Cardinality({i \in 1..Len(pages) : pages[i] = 1})
        IN  /\ sessions.bounceRate.kind = "string"
            /\ IsFixed2(sessions.bounceRate.chars)
            /\ NearestHundredths(Hundredths(sessions.bounceRate.chars),
                                 100 * bounces, Len(pages))

\* page counts 1, 1 and 3 give 66.67
C14_Witness ==
    /\ pc = "sessionsDone"
    /\ sessionLists(logEntries).pages = <<1, 1, 3>>
    /\ sessions.bounceRate = Str(<<"6","6",".","6","7">>)

---------------------------------------------------------------------------
(* One call of processLogs, by a reconstructor built with or without a     *)
(* BotFilter, on an arbitrary array of at most MaxLogEntries log entries.  *)

MaxLogEntries == 3

GooglebotUA == Str(<<"G","o","o","g","l","e","b","o","t","/","2",".","1">>)

PhoneUA == Str(<<"M","o","z","i","l","l","a","/","5",".","0"," ","(","i","P","h","o","n","e",")"," ","S","a","f","a","r","i">>)

PadUA == Str(<<"M","o","z","i","l","l","a","/","5",".","0"," ","(","i","P","a","d",")"," ","S","a","f","a","r","i">>)

LogEntry(timestamp, ip, userAgent, path, referer) ==
    [timestamp |-> timestamp, ip |-> ip, userAgent |-> userAgent, path |-> path,
     url |-> Undefined, referer |-> referer, referrer |-> Undefined,
     country |-> Undefined, city |-> Undefined, session |-> NoSession]

\* the three entries of the package's self-test, an entry without timestamp,
\* one with a timestamp that is no date, one whose session summary has no
\* headers object, a visit on the next day and an entry without ip and
\* user agent
LogEntries ==
    { LogEntry(Str(<<"2","0","2","4","-","0","1","-","1","5","T","1","0",":","0","0",":","0","0","Z">>),
               HomeIP, ChromeUA, Str(<<"/">>),
               Str(<<"h","t","t","p","s",":","/","/","g","o","o","g","l","e",".","c","o","m">>)),
      LogEntry(Str(<<"2","0","2","4","-","0","1","-","1","5","T","1","0",":","0","1",":","0","0","Z">>),
               HomeIP, ChromeUA, Str(<<"/","a","b","o","u","t">>), Str(<<"/">>)),
      LogEntry(Str(<<"2","0","2","4","-","0","1","-","1","5","T","1","0",":","0","2",":","0","0","Z">>),
               Str(<<"6","6",".","2","4","9",".","6","4",".","1">>), GooglebotUA,
               Str(<<"/","s","i","t","e","m","a","p",".","x","m","l">>), Undefined),
      LogEntry(Undefined, HomeIP, ChromeUA, Str(<<"/">>), Undefined),
      [LogEntry(Str(<<"y","e","s","t","e","r","d","a","y">>), VisitorB, PhoneUA, Undefined,
                Undefined)
         EXCEPT !.url = Str(<<"h","t","t","p","s",":","/","/","e","x","a","m","p","l","e",".","c","o","m","/","f","o","n","t","s","?","x","=","1">>),
                !.referrer = Str(<<"h","t","t","p","s",":","/","/","N","e","w","s",".","e","x","a","m","p","l","e",".","o","r","g","/","a">>)],
      [LogEntry(Str(<<"2","0","2","4","-","0","1","-","1","5","T","1","0",":","4","0",":","0","0","Z">>),
                HomeIP, ChromeUA, Str(<<"/">>), Undefined)
         EXCEPT !.session = BareSession],
      [LogEntry(Str(<<"2","0","2","4","-","0","1","-","1","6","T","0","0",":","3","0",":","0","0","Z">>),
                VisitorB, PadUA, Undefined, Undefined)
         EXCEPT !.url = Str(<<"h","t","t","p","s",":","/","/","e","x","a","m","p","l","e",".","c","o","m","/","f","o","n","t","s","?","x","=","1">>),
                !.country = Str(<<"D","E">>), !.city = Str(<<"B","e","r","l","i","n">>)],
      LogEntry(Str(<<"2","0","2","4","-","0","1","-","1","5","T","2","3",":","5","0",":","0","0","Z">>),
               Undefined, Undefined, Str(<<"/","a","b","o","u","t">>), Str(<<"/">>)) }

LogArrays == UNION { [1..n -> LogEntries] : n \in 0..MaxLogEntries }

InitProcessLogs ==
    /\ pc = "processLogs"
    /\ logEntries \in LogArrays
    /\ botFilter \in BOOLEAN
    /\ analytics = NotProcessed
    /\ request = [userAgent |-> Undefined, ip |-> Undefined, session |-> NoSession]
    /\ outcome = NotCalled
    /\ results = NoResults
    /\ sessions = NoSessions
    /\ fingerprints = NoFingerprints
    /\ history = <<>>
    /\ Idle

ProcessLogsCall ==
    /\ pc = "processLogs"
    /\ analytics' = processLogs(botFilter, logEntries)
    /\ pc' = IF analytics'.threw THEN "processThrew" ELSE "processed"
    /\ logEntries' = inputAfterProcessLogs(botFilter, logEntries)
    /\ UNCHANGED <<request, outcome, results, botFilter, sessions,
                   fingerprints, history>>
    /\ UNCHANGED idleVars

NextProcessLogs == ProcessLogsCall

SpecProcessLogs == InitProcessLogs /\ [][NextProcessLogs]_vars

---------------------------------------------------------------------------
(* Properties of processLogs                                               *)

ProcessCalled == pc \in {"processed", "processThrew"}

Processed == pc = "processed"

result == analytics.value

requestOf(entry) == [userAgent |-> entry.userAgent, ip |-> entry.ip, session |-> entry.session]

\* the entry is classified, and classified as a bot, by the reconstructor's
\* BotFilter
IsBotEntry(entry) ==
    /\ botFilter
    /\ ~isBot(requestOf(entry)).threw
    /\ isBot(requestOf(entry)).value.isBot

\* the entry is legitimate: there is no BotFilter, or its verdict is not bot
IsLegitimate(entry) ==
    \/ ~botFilter
    \/ ~isBot(requestOf(entry)).threw /\ ~isBot(requestOf(entry)).value.isBot

\* the entry makes the BotFilter throw
IsUnclassified(entry) == botFilter /\ isBot(requestOf(entry)).threw

LegitimateIndexes == {i \in 1..Len(logEntries) : IsLegitimate(logEntries[i])}

BotIndexes == {i \in 1..Len(logEntries) : IsBotEntry(logEntries[i])}

HasValidDate(entry) == NewDate(entry.timestamp).valid

\* a rate that is the number zero, the text of zero, or null
IsZeroOrNull(value) ==
    \/ value.kind = "null"
    \/ value.kind = "number" /\ value.num = 0
    \/ value.kind = "string" /\ value.chars \in {<<"0">>, <<"0",".","0","0">>}

\* C12: for an empty input array processLogs returns a result whose counts
\* are all zero and whose rate and percentage fields (overview.botPercentage,
\* sessions.avgDuration, sessions.avgPagesPerSession, sessions.bounceRate,
\* devices.percentages) are zero or null, never NaN.
C12_EmptyInput ==
    (ProcessCalled /\ Len(logEntries) = 0) =>
        /\ ~analytics.threw
        /\ result.overview.totalRequests = 0
        /\ result.overview.totalBots = 0
        /\ result.visitors.byIP = 0
        /\ result.visitors.byFingerprint = 0
        /\ result.impressions.total = 0
        /\ result.sessions.total = 0
        /\ \A d \in deviceTypes : result.devices.counts[d] = 0
        /\ result.sessions.avgDuration.num = 0
        /\ IsZeroOrNull(result.sessions.avgPagesPerSession)
        /\ IsZeroOrNull(result.overview.botPercentage)
        /\ IsZeroOrNull(result.sessions.bounceRate)
        /\ \A d \in deviceTypes : IsZeroOrNull(result.devices.percentages[d])

\* the legitimate entries with a valid timestamp, in input order
RECURSIVE DatedEntries(_)
DatedEntries(entries) ==
    IF entries = <<>> THEN <<>>
    ELSE IF HasValidDate(entries[1]) /\ IsLegitimate(entries[1])
         THEN <<entries[1]>> \o DatedEntries(Tail(entries))
         ELSE DatedEntries(Tail(entries))

\* C15: for every input in which a legitimate entry has a missing or
\* malformed timestamp (and every entry can be classified), processLogs
\* returns a result, the date range is that of the other entries, and all
\* legitimate entries are counted.
C15_BadTimestamp ==
    (/\ ProcessCalled
     /\ \A i \in 1..Len(logEntries) : ~IsUnclassified(logEntries[i])
     /\ \E i \in LegitimateIndexes : ~HasValidDate(logEntries[i])) =>
        /\ ~analytics.threw
        /\ result.overview.totalRequests = Cardinality(LegitimateIndexes)
        /\ result.impressions.total = Cardinality(LegitimateIndexes)
        /\ result.overview.dateRange = getDateRange(DatedEntries(logEntries))

\* the referer of an entry is absent or is not a URL
HasNoRefererURL(entry) ==
    \/ ~Truthy(entry.referer) /\ ~Truthy(entry.referrer)
    \/ ~ParseURL(ToStringJS(refererOf(entry))).ok

\* the bucket the referrers breakdown is to count the entry in
ExpectedBucket(entry) ==
    IF HasNoRefererURL(entry) THEN directText
    ELSE ParseURL(ToStringJS(refererOf(entry))).hostname

\* C16: in the referrers breakdown every legitimate entry whose referer is
\* missing or not parseable as a URL is counted under 'Direct', and only a
\* parseable referer is counted under its hostname: each bucket holds the
\* entries expected in it, and no other bucket exists.
C16_DirectBucket ==
    Processed =>
        /\ \A i \in LegitimateIndexes :
              \E k \in 1..Len(result.referrers.all) :
                 /\ result.referrers.all[k].referrer = ExpectedBucket(logEntries[i])
                 /\ result.referrers.all[k].visits =
                       Cardinality({j \in LegitimateIndexes :
                           ExpectedBucket(logEntries[j]) = ExpectedBucket(logEntries[i])})
        /\ \A k \in 1..Len(result.referrers.all) :
              \E i \in LegitimateIndexes :
                 result.referrers.all[k].referrer = ExpectedBucket(logEntries[i])

RECURSIVE SumField(_, _)
SumField(items, field) ==
    IF items = <<>> THEN 0 ELSE items[1][field] + SumField(Tail(items), field)

\* C17: a reconstructor built without a BotFilter takes every entry as
\* legitimate: totalRequests is the length of the input, totalBots and
\* botPercentage are 0, and every metric is the one computed over the whole
\* input (each entry is in the impressions, in one device class, one
\* browser, one referrer bucket and one day of the timeline).
C17_NoBotFilter ==
    (Processed /\ ~botFilter) =>
        /\ result.overview.totalRequests = Len(logEntries)
        /\ result.overview.totalBots = 0
        /\ result.overview.botPercentage = Num(0)
        /\ result.overview.dateRange = getDateRange(logEntries)
        /\ result.visitors = calculateVisitors(logEntries)
        /\ result.impressions.total = Len(logEntries)
        /\ SumField(result.impressions.byPage, "impressions") = Len(logEntries)
        /\ result.sessions = calculateSessions(logEntries)
        /\ SumField(result.pages, "views") = Len(logEntries)
        /\ SumField(result.referrers.all, "visits") = Len(logEntries)
        /\ SumField(result.browsers.breakdown, "count") = Len(logEntries)
        /\ SumField(result.timeline.daily, "count") = Len(logEntries)
        /\ result.devices.counts["mobile"] + result.devices.counts["tablet"]
           + result.devices.counts["desktop"] + result.devices.counts["unknown"]
           = Len(logEntries)

\* a reconstructor without BotFilter has processed three entries, one of
\* them Googlebot's, which a BotFilter would have taken out
C17_Witness ==
    /\ Processed
    /\ ~botFilter
    /\ Len(logEntries) = 3
    /\ \E i \in 1..3 : logEntries[i].userAgent = GooglebotUA
    /\ result.overview.totalRequests = 3
    /\ result.overview.totalBots = 0

\* C18: for every input array processLogs reports totalRequests = number of
\* legitimate entries, totalBots = number of bot entries (their sum is the
\* length of the input), impressions.total = number of legitimate entries,
\* and visitors.recommended = visitors.byFingerprint = number of distinct
\* fingerprints among the legitimate entries.
C18_Totals ==
    ProcessCalled =>
        /\ ~analytics.threw
        /\ result.overview.totalRequests = Cardinality(LegitimateIndexes)
        /\ result.overview.totalBots = Cardinality(BotIndexes)
        /\ result.overview.totalRequests + result.overview.totalBots = Len(logEntries)
        /\ result.impressions.total = Cardinality(LegitimateIndexes)
        /\ result.visitors.recommended = result.visitors.byFingerprint
        /\ result.visitors.byFingerprint =
              Cardinality({createFingerprint(logEntries[i].ip, logEntries[i].userAgent) :
                              i \in LegitimateIndexes})

---------------------------------------------------------------------------
(* Repeated calls of isBot and processLogs on two BotFilters and the       *)
(* reconstructors built on them; history records each call with its input  *)
(* and what it gave.                                                       *)

MaxCalls == 4

Instances == {1, 2}

RepeatRequests ==
    { [userAgent |-> ChromeUA, ip |-> HomeIP, session |-> NoSession],
      [userAgent |-> GooglebotUA, ip |-> HomeIP, session |-> NoSession] }

RepeatArrays ==
    { <<LogEntry(Str(<<"2","0","2","4","-","0","1","-","1","5","T","1","0",":","0","0",":","0","0","Z">>),
                 HomeIP, ChromeUA, Str(<<"/">>), Undefined),
        LogEntry(Str(<<"2","0","2","4","-","0","1","-","1","5","T","1","0",":","0","2",":","0","0","Z">>),
                 Str(<<"6","6",".","2","4","9",".","6","4",".","1">>), GooglebotUA,
                 Str(<<"/","s","i","t","e","m","a","p",".","x","m","l">>), Undefined)>>,
      <<LogEntry(Undefined, HomeIP, ChromeUA, Str(<<"/">>), Undefined)>> }

InitRepeat ==
    /\ history = <<>>
    /\ pc = "repeat"
    /\ botFilter = TRUE
    /\ logEntries = <<>>
    /\ request = [userAgent |-> Undefined, ip |-> Undefined, session |-> NoSession]
    /\ outcome = NotCalled
    /\ results = NoResults
    /\ analytics = NotProcessed
    /\ sessions = NoSessions
    /\ fingerprints = NoFingerprints
    /\ Idle

\* botFilter.isBot(r) on one of the BotFilters
RepeatIsBot ==
    /\ pc = "repeat"
    /\ Len(history) < MaxCalls
    /\ \E instance \in Instances, r \in RepeatRequests :
          history' = Append(history, [op |-> "isBot", instance |-> instance,
                                      input |-> r, output |-> isBot(r)])
    /\ UNCHANGED <<pc, request, outcome, logEntries, results, botFilter, analytics,
                   sessions, fingerprints>>
    /\ UNCHANGED idleVars

\* analytics.processLogs(entries) on one of the reconstructors
RepeatProcessLogs ==
    /\ pc = "repeat"
    /\ Len(history) < MaxCalls
    /\ \E instance \in Instances, entries \in RepeatArrays :
          history' = Append(history, [op |-> "processLogs", instance |-> instance,
                                      input |-> entries,
                                      output |-> processLogs(botFilter, entries)])
    /\ UNCHANGED <<pc, request, outcome, logEntries, results, botFilter, analytics,
                   sessions, fingerprints>>
    /\ UNCHANGED idleVars

NextRepeat == RepeatIsBot \/ RepeatProcessLogs

SpecRepeat == InitRepeat /\ [][NextRepeat]_vars

---------------------------------------------------------------------------
(* _createFingerprint on the ip and user agent of two entries.             *)

FingerprintFields ==
    { Undefined, Null, Str(<<>>), Num(0), Num(7), Str(unknownText), HomeIP, ChromeUA }

FingerprintPairs == [ip : FingerprintFields, userAgent : FingerprintFields]

InitFingerprint ==
    /\ pc = "createFingerprint"
    /\ logEntries \in [1..2 -> FingerprintPairs]
    /\ fingerprints = NoFingerprints
    /\ request = [userAgent |-> Undefined, ip |-> Undefined, session |-> NoSession]
    /\ outcome = NotCalled
    /\ results = NoResults
    /\ botFilter = FALSE
    /\ analytics = NotProcessed
    /\ sessions = NoSessions
    /\ history = <<>>
    /\ Idle

CreateFingerprintCall ==
    /\ pc = "createFingerprint"
    /\ fingerprints' = [i \in 1..2 |->
                          createFingerprint(logEntries[i].ip, logEntries[i].userAgent)]
    /\ pc' = "fingerprinted"
    /\ UNCHANGED <<request, outcome, logEntries, results, botFilter, analytics,
                   sessions, history>>
    /\ UNCHANGED idleVars

NextFingerprint == CreateFingerprintCall

SpecFingerprint == InitFingerprint /\ [][NextFingerprint]_vars

\* the field is missing: undefined, null or the empty string
IsMissing(field) == field \in {Undefined, Null, Str(<<>>)}

\* field or 'unknown', as a text
OrUnknown(field) ==
    IF IsMissing(field) \/ field = Num(0) THEN unknownText
    ELSE IF field.kind = "string" THEN field.chars ELSE NatToChars(field.num)

\* C20: the fingerprint is a function of the pair (ip or 'unknown',
\* userAgent or 'unknown'): entries with equal pairs have equal fingerprints,
\* and an entry whose ip and userAgent are both missing (undefined, null or
\* empty, in any combination) has the fingerprint of 'unknown|unknown'.
C20_FingerprintOfPair ==
    pc = "fingerprinted" =>
        /\ (/\ OrUnknown(logEntries[1].ip) = OrUnknown(logEntries[2].ip)
            /\ OrUnknown(logEntries[1].userAgent) = OrUnknown(logEntries[2].userAgent))
              => fingerprints[1] = fingerprints[2]
        /\ \A i \in 1..2 :
              (IsMissing(logEntries[i].ip) /\ IsMissing(logEntries[i].userAgent))
                 => fingerprints[i] = md5hex(unknownText \o <<"|">> \o unknownText)

\* the fingerprints of (undefined, undefined) and of ('', null) have been
\* computed and are equal
C20_Witness ==
    /\ pc = "fingerprinted"
    /\ logEntries[1] = [ip |-> Undefined, userAgent |-> Undefined]
    /\ logEntries[2] = [ip |-> Str(<<>>), userAgent |-> Null]
    /\ fingerprints[1] = fingerprints[2]

---------------------------------------------------------------------------
(* One call of _calculateDevices on an arbitrary array of at most          *)
(* MaxDeviceEntries legitimate entries.                                    *)

MaxDeviceEntries == 3

AndroidTabletUA == Str(<<"M","o","z","i","l","l","a","/","5",".","0"," ","(","A","n","d","r","o","i","d",";"," ","T","a","b","l","e","t",")"," ","F","i","r","e","f","o","x">>)

TabletUA == Str(<<"T","a","b","l","e","t"," ","P","C"," ","2",".","0">>)

CurlUA == Str(<<"c","u","r","l","/","7",".","6","8",".","0">>)

\* user agents with a mobile and a tablet keyword, a tablet keyword and a
\* desktop token, a mobile keyword and a desktop token, a tablet keyword
\* alone, desktop tokens alone, none of them, and no user agent
DeviceUserAgents == { AndroidTabletUA, PadUA, PhoneUA, TabletUA, ChromeUA, CurlUA, Undefined }

DeviceEntries == [userAgent : DeviceUserAgents]

DeviceArrays == UNION { [1..n -> DeviceEntries] : n \in 0..MaxDeviceEntries }

InitDevices ==
    /\ pc = "calculateDevices"
    /\ logEntries \in DeviceArrays
    /\ deviceTally = NoDevices
    /\ classifier = NewBotFilter
    /\ fetcher = NoFetcher
    /\ request = [userAgent |-> Undefined, ip |-> Undefined, session |-> NoSession]
    /\ outcome = NotCalled
    /\ results = NoResults
    /\ NoReconstructor

CalculateDevicesCall ==
    /\ pc = "calculateDevices"
    /\ deviceTally' = calculateDevices(logEntries)
    /\ pc' = "devicesDone"
    /\ UNCHANGED <<request, outcome, logEntries, results, classifier, fetcher>>
    /\ UNCHANGED reconstructorVars

NextDevices == CalculateDevicesCall

SpecDevices == InitDevices /\ [][NextDevices]_vars

\* the user agent of the entry holds one of the keywords, in any letter case
Mentions(entry, keywords) ==
    /\ Truthy(entry.userAgent)
    /\ \E word \in keywords : RegexTestI(word, entry.userAgent.chars)

\* the category the priority mobile > tablet > desktop > unknown gives
ExpectedDevice(entry) ==
    CASE Mentions(entry, mobileKeywords) -> "mobile"
      [] ~Mentions(entry, mobileKeywords) /\ Mentions(entry, tabletKeywords) -> "tablet"
      [] /\ ~Mentions(entry, mobileKeywords) /\ ~Mentions(entry, tabletKeywords)
         /\ Mentions(entry, desktopKeywords) -> "desktop"
      [] OTHER -> "unknown"

\* C21: every entry is counted in exactly one device category, the one the
\* priority mobile keyword > tablet keyword > desktop token > unknown gives
\* (mobile and tablet keyword: mobile; tablet keyword and desktop token:
\* tablet), and the four counts sum to the number of entries.
C21_DevicePriority ==
    pc = "devicesDone" =>
        /\ \A d \in deviceTypes :
              deviceTally.counts[d] =
                 Cardinality({i \in 1..Len(logEntries) : ExpectedDevice(logEntries[i]) = d})
        /\ deviceTally.counts["mobile"] + deviceTally.counts["tablet"]
           + deviceTally.counts["desktop"] + deviceTally.counts["unknown"] = Len(logEntries)

\* a user agent with a mobile and a tablet keyword and one with a tablet
\* keyword and a desktop token have been counted, as mobile and as tablet
C21_Witness ==
    /\ pc = "devicesDone"
    /\ logEntries = <<[userAgent |-> AndroidTabletUA], [userAgent |-> PadUA],
                      [userAgent |-> CurlUA]>>
    /\ deviceTally.counts = [mobile |-> 1, tablet |-> 1, desktop |-> 0, unknown |-> 1]

---------------------------------------------------------------------------
(* A BotFilter whose botIPRanges list is extended by the caller, as the    *)
(* README shows, before isBot is called.                                   *)

MaxPushes == 2

\* the range of the README, a second CIDR range, and a prefix in the form
\* of the prefixes isBotIP tests
CustomRanges == { <<"1","0",".","0",".","0",".","0","/","8">>, <<"1","7","2",".","1","6",".","0",".","0","/","1","6">>, <<"1","0",".">> }

CustomRequests ==
    [userAgent : {ChromeUA, GooglebotUA},
     ip : { Str(<<"1","0",".","1",".","2",".","3">>), Str(<<"1","0",".","0",".","0",".","7">>), Str(<<"1","7","2",".","1","6",".","0",".","9">>), HomeIP,
            Str(<<"6","6",".","2","4","9",".","6","4",".","1">>) },
     session : {NoSession, HumanSession}]

InitCustomize ==
    /\ pc = "customize"
    /\ classifier = NewBotFilter
    /\ request \in CustomRequests
    /\ outcome = NotCalled
    /\ logEntries = <<>>
    /\ results = NoResults
    /\ deviceTally = NoDevices
    /\ fetcher = NoFetcher
    /\ NoReconstructor

\* botFilter.botIPRanges.push(range)
PushRange ==
    /\ pc = "customize"
    /\ Len(classifier.botIPRanges) < Len(botIPRanges) + MaxPushes
    /\ \E range \in CustomRanges :
          classifier' = [classifier EXCEPT !.botIPRanges = Append(@, range)]
    /\ UNCHANGED <<pc, request, outcome, logEntries, results, deviceTally, fetcher>>
    /\ UNCHANGED reconstructorVars

\* botFilter.isBot(request) on the customized filter: isBotIP tests the ip
\* against its own list of prefixes and does not read this.botIPRanges
CustomIsBotCall ==
    /\ pc = "customize"
    /\ outcome' = isBot(request)
    /\ pc' = IF outcome'.threw THEN "customThrew" ELSE "classified"
    /\ UNCHANGED <<request, logEntries, results, deviceTally, classifier, fetcher>>
    /\ UNCHANGED reconstructorVars

NextCustomize == PushRange \/ CustomIsBotCall

SpecCustomize == InitCustomize /\ [][NextCustomize]_vars

\* the numbers between the dots of a dotted text, up to the first character
\* that is neither a digit nor a dot
RECURSIVE Octets(_, _, _)
Octets(chars, k, current) ==
    IF k > Len(chars) \/ ~(IsDigit(chars[k]) \/ chars[k] = ".")
    THEN <<current>>
    ELSE IF chars[k] = "."
    THEN <<current>> \o Octets(chars, k + 1, 0)
    ELSE Octets(chars, k + 1, 10 * current + DigitValue(chars[k]))

\* the ip lies in the range: a range a.b.c.d/8, /16 or /24 holds the ips
\* that agree with it on the first 1, 2 or 3 numbers, a range without a
\* slash the ips that begin with it
InRange(ip, range) ==
    LET slash == FirstOf(range, {"/"}, 1)
    IN  IF slash > Len(range) THEN StartsWith(ip, range)
        ELSE LET bits == CharsToNat(SubSeq(range, slash + 1, Len(range)))
                 n == bits \div 8
             IN  SubSeq(Octets(ip, 1, 0), 1, n) = SubSeq(Octets(range, 1, 0), 1, n)

\* the ranges pushed after construction
PushedRanges ==
    {classifier.botIPRanges[k] : k \in (Len(botIPRanges) + 1)..Len(classifier.botIPRanges)}

\* C22: after botFilter.botIPRanges.push(range), a request with a non-bot
\* user agent and an ip inside that range is classified by isBot as bot
\* with method 'ip-range'.
C22_CustomRangeUsed ==
    (/\ pc \in {"classified", "customThrew"}
     /\ ~MatchesSignature(request.userAgent)
     /\ \E range \in PushedRanges : InRange(request.ip.chars, range)) =>
        /\ ~outcome.threw
        /\ outcome.value.isBot
        /\ outcome.value.method = "ip-range"

---------------------------------------------------------------------------
(* Isolation of a bad record in filterLogs                                 *)

\* the entry carries a session summary without a headers object
LacksHeaders(entry) ==
    entry.session.kind = "object" /\ entry.session.headers.kind = "undefined"

\* C25: when an entry carries a session summary without a headers object,
\* isBot still returns a verdict for it, and filterLogs still returns and
\* puts every other entry into legitimate or bots.
C25_BadRecordIsolated ==
    (FilterCalled /\ \E i \in 1..Len(logEntries) : LacksHeaders(logEntries[i])) =>
        /\ \A i \in 1..Len(logEntries) :
              LacksHeaders(logEntries[i]) => ~isBot(requestOf(logEntries[i])).threw
        /\ pc = "filtered"
        /\ \A i \in 1..Len(logEntries) :
              ~LacksHeaders(logEntries[i]) =>
                 \/ \E j \in 1..Len(legitimate) : legitimate[j] = logEntries[i]
                 \/ \E j \in 1..Len(bots) : Original(bots[j]) = logEntries[i]

---------------------------------------------------------------------------
(* FontScraper.scanHistorical: getYearlySnapshots queries the CDX index    *)
(* once per year and delays after each query, then fetchSnapshot fetches   *)
(* the page of every snapshot found.  What a request is answered with is   *)
(* the network's choice.  A year is named by its loop index i (the source  *)
(* takes the current year minus i).                                        *)

MaxYears == 2

MaxRedirects == 1

Event(event, kind, year, redirect, ms) ==
    [event |-> event, kind |-> kind, year |-> year, redirect |-> redirect, ms |-> ms]

InitScan ==
    /\ pc = "scanHistorical"
    /\ \E yearsBack \in 1..MaxYears :
          fetcher = [NoFetcher EXCEPT !.pc = "yearLoop", !.yearsBack = yearsBack]
    /\ deviceTally = NoDevices
    /\ classifier = NewBotFilter
    /\ logEntries = <<>>
    /\ request = [userAgent |-> Undefined, ip |-> Undefined, session |-> NoSession]
    /\ outcome = NotCalled
    /\ results = NoResults
    /\ NoReconstructor

scanUnchanged ==
    /\ UNCHANGED <<pc, request, outcome, logEntries, results, deviceTally, classifier>>
    /\ UNCHANGED reconstructorVars

\* getYearlySnapshots, loop body: getSnapshots sends the CDX query of year i
QueryYear ==
    /\ fetcher.pc = "yearLoop"
    /\ fetcher.i < fetcher.yearsBack
    /\ fetcher' = [fetcher EXCEPT !.pc = "cdxWait", !.redirects = 0,
                      !.log = Append(@, Event("request", "cdx", fetcher.i, FALSE, 0))]
    /\ scanUnchanged

\* 200 with at least one row: the year's closest snapshot is pushed
CdxFound ==
    /\ fetcher.pc = "cdxWait"
    /\ fetcher' = [fetcher EXCEPT !.pc = "yearDelay", !.snapshots = Append(@, fetcher.i)]
    /\ scanUnchanged

\* 200 with the header row only: getSnapshots returns []
CdxEmpty ==
    /\ fetcher.pc = "cdxWait"
    /\ fetcher' = [fetcher EXCEPT !.pc = "yearDelay"]
    /\ scanUnchanged

\* another status, a network error or the timeout: _makeRequest rejects,
\* getSnapshots reports the error and returns []
CdxFailed ==
    /\ fetcher.pc = "cdxWait"
    /\ fetcher' = [fetcher EXCEPT !.pc = "yearDelay",
                      !.log = Append(@, Event("failure", "cdx", fetcher.i, FALSE, 0))]
    /\ scanUnchanged

\* 3xx with a location: _makeRequest requests the location at once
CdxRedirect ==
    /\ fetcher.pc = "cdxWait"
    /\ fetcher.redirects < MaxRedirects
    /\ fetcher' = [fetcher EXCEPT !.redirects = @ + 1,
                      !.log = Append(@, Event("request", "cdx", fetcher.i, TRUE, 0))]
    /\ scanUnchanged

\* await this._delay(this.requestDelay), then the next year
YearDelay ==
    /\ fetcher.pc = "yearDelay"
    /\ fetcher' = [fetcher EXCEPT !.pc = "yearLoop", !.i = @ + 1,
                      !.log = Append(@, Event("delay", "none", fetcher.i, FALSE,
                                              fetcher.requestDelay))]
    /\ scanUnchanged

\* getYearlySnapshots returns; scanHistorical starts its loop
YearsDone ==
    /\ fetcher.pc = "yearLoop"
    /\ fetcher.i >= fetcher.yearsBack
    /\ fetcher' = [fetcher EXCEPT !.pc = "snapshotLoop", !.k = 1]
    /\ scanUnchanged

\* scanHistorical, loop body: fetchSnapshot requests the archived page
FetchPage ==
    /\ fetcher.pc = "snapshotLoop"
    /\ fetcher.k <= Len(fetcher.snapshots)
    /\ fetcher' = [fetcher EXCEPT !.pc = "pageWait", !.redirects = 0,
                      !.log = Append(@, Event("request", "page",
                                              fetcher.snapshots[fetcher.k], FALSE, 0))]
    /\ scanUnchanged

\* 200: the snapshot is analysed and pushed to results
PageFetched ==
    /\ fetcher.pc = "pageWait"
    /\ fetcher' = [fetcher EXCEPT !.pc = "snapshotLoop", !.k = @ + 1,
                      !.results = Append(@, [year |-> fetcher.snapshots[fetcher.k],
                                             error |-> FALSE])]
    /\ scanUnchanged

\* _makeRequest rejects: fetchArchivedPage reports and rethrows, and
\* scanHistorical pushes the error for that year
PageFailed ==
    /\ fetcher.pc = "pageWait"
    /\ fetcher' = [fetcher EXCEPT !.pc = "snapshotLoop", !.k = @ + 1,
                      !.log = Append(@, Event("failure", "page",
                                              fetcher.snapshots[fetcher.k], FALSE, 0)),
                      !.results = Append(@, [year |-> fetcher.snapshots[fetcher.k],
                                             error |-> TRUE])]
    /\ scanUnchanged

PageRedirect ==
    /\ fetcher.pc = "pageWait"
    /\ fetcher.redirects < MaxRedirects
    /\ fetcher' = [fetcher EXCEPT !.redirects = @ + 1,
                      !.log = Append(@, Event("request", "page",
                                              fetcher.snapshots[fetcher.k], TRUE, 0))]
    /\ scanUnchanged

\* scanHistorical returns
ScanDone ==
    /\ fetcher.pc = "snapshotLoop"
    /\ fetcher.k > Len(fetcher.snapshots)
    /\ fetcher' = [fetcher EXCEPT !.pc = "done"]
    /\ scanUnchanged

NextScan ==
    \/ QueryYear \/ CdxFound \/ CdxEmpty \/ CdxFailed \/ CdxRedirect \/ YearDelay
    \/ YearsDone \/ FetchPage \/ PageFetched \/ PageFailed \/ PageRedirect \/ ScanDone

SpecScan == InitScan /\ [][NextScan]_vars

\* the requests for the same target sent before position p, redirects
\* apart: the attempts made for it
Attempts(p) ==
    {q \in 1..(p - 1) :
        /\ fetcher.log[q].event = "request"
        /\ ~fetcher.log[q].redirect
        /\ fetcher.log[q].kind = fetcher.log[p].kind
        /\ fetcher.log[q].year = fetcher.log[p].year}

\* C23: a failure is reported only when the retries are exhausted: the
\* request had been sent once and then again maxRetries times.
C23_RetriedBeforeFailure ==
    \A p \in 1..Len(fetcher.log) :
        fetcher.log[p].event = "failure" =>
            Cardinality(Attempts(p)) = fetcher.maxRetries + 1

\* C24: between any two consecutive requests the fetcher sends, a delay of
\* requestDelay is waited.
C24_DelayBetweenRequests ==
    \A p, q \in 1..Len(fetcher.log) :
        (/\ p < q
         /\ fetcher.log[p].event = "request"
         /\ fetcher.log[q].event = "request"
         /\ \A r \in (p + 1)..(q - 1) : fetcher.log[r].event # "request") =>
            \E r \in (p + 1)..(q - 1) :
                /\ fetcher.log[r].event = "delay"
                /\ fetcher.log[r].ms = requestDelay

---------------------------------------------------------------------------
(* Inputs and classifier across a call of processLogs                      *)

---------------------------------------------------------------------------
(* Durations of the sessions of _calculateSessions                         *)

EntriesOfVisitor(entries, v) == SelectSeq(entries, LAMBDA e : Visitor(e) = v)

\* the minutes of the events of visitor v, in input order
TimesOfVisitor(entries, v) ==
    LET own == EntriesOfVisitor(entries, v)
    IN  [i \in 1..Len(own) |-> Minute(own[i])]

\* the minutes that start a session: no earlier event within 30 minutes
StartsIn(times) ==
    {times[i] : i \in {k \in 1..Len(times) :
        \A j \in 1..Len(times) : times[j] < times[k] => times[k] - times[j] > 30}}

\* last event minus first event, in ms, of the session starting at t
DurationFrom(times, starts, t) ==
    LET inside == {times[j] : j \in {i \in 1..Len(times) :
                      /\ times[i] >= t
                      /\ \A s \in starts : s > t => times[i] < s}}
    IN  ((CHOOSE x \in inside : \A y \in inside : y <= x) - t) * 60000

RECURSIVE DurationsInOrder(_, _, _)
DurationsInOrder(times, starts, left) ==
    IF left = {} THEN <<>>
    ELSE LET t == CHOOSE x \in left : \A y \in left : x <= y
         IN  <<DurationFrom(times, starts, t)>>
             \o DurationsInOrder(times, starts, left \ {t})

RECURSIVE ExpectedDurations(_, _)
ExpectedDurations(entries, order) ==
    IF order = <<>> THEN <<>>
    ELSE LET times  == TimesOfVisitor(entries, order[1])
             starts == StartsIn(times)
         IN  DurationsInOrder(times, starts, starts)
             \o ExpectedDurations(entries, Tail(order))

\* C27: every session has 0 <= duration <= (pages - 1) * 30 minutes, the
\* duration being the time from the first to the last event of the
\* session; a visitor with one event gives exactly one session, of
\* duration 0 and one page; sessions.avgDuration is not negative.
C27_SessionDuration ==
    pc = "sessionsDone" =>
        LET lists == sessionLists(logEntries)
        IN  /\ Len(lists.durations) = Len(lists.pages)
            /\ \A k \in 1..Len(lists.durations) :
                  /\ 0 <= lists.durations[k]
                  /\ lists.durations[k] <= (lists.pages[k] - 1) * sessionTimeout
            /\ lists.durations
                  = ExpectedDurations(logEntries, VisitorsInOrder(logEntries, 1, {}))
            /\ \A v \in VisitorsOf(logEntries) :
                  Len(EntriesOfVisitor(logEntries, v)) = 1 =>
                      sessionLists(EntriesOfVisitor(logEntries, v))
                          = [durations |-> <<0>>, pages |-> <<1>>]
            /\ sessions.avgDuration.num >= 0
            /\ sessions.avgDuration.den > 0

\* visitor A given at 10:45, 10:00 and 10:10 and visitor B once: a session
\* of 10 minutes on two pages and two sessions of one event
C27_Witness ==
    /\ pc = "sessionsDone"
    /\ Len(logEntries) = 4
    /\ logEntries[4].ip = VisitorB
    /\ \A i \in 1..3 : logEntries[i].ip = VisitorA
    /\ Minute(logEntries[1]) - Minute(logEntries[2]) = 45
    /\ Minute(logEntries[3]) - Minute(logEntries[2]) = 10
    /\ sessionLists(logEntries) = [durations |-> <<600000, 0, 0>>, pages |-> <<2, 1, 1>>]
    /\ sessions.avgDuration = Ratio(600000, 3)

---------------------------------------------------------------------------
(* The verdicts of isBot as filterLogs sees them                           *)

DetectionMethodNames == {"user-agent", "ip-range", "behavioral"}

\* C28: in every verdict isBot returns, isBot is true exactly when method
\* is not null, and then method is 'user-agent', 'ip-range' or
\* 'behavioral'; so filterLogs never makes the key 'unknown' in
\* stats.detectionMethods.
C28_VerdictHasMethod ==
    /\ \A i \in 1..Len(logEntries) :
          LET returned == isBot(requestOf(logEntries[i]))
          IN  ~returned.threw =>
                  /\ returned.value.isBot \in BOOLEAN
                  /\ returned.value.isBot <=> returned.value.method # "null"
                  /\ returned.value.isBot => returned.value.method \in DetectionMethodNames
    /\ pc = "filtered" =>
          /\ "unknown" \notin DOMAIN results.value.stats.detectionMethods
          /\ \A j \in 1..Len(bots) :
                bots[j].botDetection.method \in DetectionMethodNames

\* a bot found by its user agent, one found by its behaviour and a
\* legitimate entry whose verdict has method null
C28_Witness ==
    /\ pc = "filtered"
    /\ DOMAIN results.value.stats.detectionMethods = {"user-agent", "behavioral"}
    /\ Len(bots) = 2
    /\ Len(legitimate) = 1
    /\ isBot(requestOf(legitimate[1])).value.method = "null"

---------------------------------------------------------------------------
(* Conservation of events by _calculateSessions                            *)

FingerprintsOf(entries) ==
    {createFingerprint(entries[i].ip, entries[i].userAgent) : i \in 1..Len(entries)}

\* C29: every entry is counted in exactly one session: the page counts of
\* the sessions add up to the number of entries, every session has at
\* least one page, and sessions.total lies between the number of distinct
\* fingerprints and the number of entries.
C29_EventsConserved ==
    pc = "sessionsDone" =>
        LET lists == sessionLists(logEntries)
        IN  /\ sessions.total = Len(lists.pages)
            /\ \A k \in 1..Len(lists.pages) : lists.pages[k] >= 1
            /\ SumSeq(lists.pages) = Len(logEntries)
            /\ Cardinality(FingerprintsOf(logEntries)) <= sessions.total
            /\ sessions.total <= Len(logEntries)

\* five entries of two visitors, one of them given twice, in three
\* sessions: strictly between the two bounds
C29_Witness ==
    /\ pc = "sessionsDone"
    /\ Len(logEntries) = 5
    /\ Cardinality({logEntries[i] : i \in 1..5}) = 4
    /\ Cardinality(FingerprintsOf(logEntries)) = 2
    /\ sessions.total = 3
    /\ SumSeq(sessionLists(logEntries).pages) = 5

---------------------------------------------------------------------------
(* _calculateSessions called on an array of entries with valid timestamps  *)
(* and then on a rearrangement of the same array.                          *)

MaxPermuted == 3

PermutedArrays == UNION { [1..n -> Visits] : n \in 0..MaxPermuted }

\* the array with the entry of position p[i] at position i
Rearranged(entries, p) == [i \in 1..Len(entries) |-> entries[p[i]]]

InitPermuted ==
    /\ pc = "calculateSessions"
    /\ logEntries \in PermutedArrays
    /\ request = [userAgent |-> Undefined, ip |-> Undefined, session |-> NoSession]
    /\ outcome = NotCalled
    /\ results = NoResults
    /\ NoReconstructor
    /\ Idle

\* the second call, on any rearrangement of the array of the first
RearrangedSessionsCall ==
    /\ pc = "sessionsDone"
    /\ \E p \in Permutations(1..Len(logEntries)) :
          LET entries == Rearranged(logEntries, p)
          IN  history' = <<[entries |-> entries, sessions |-> calculateSessions(entries)]>>
    /\ pc' = "rearrangedDone"
    /\ UNCHANGED <<request, outcome, logEntries, results,
                   botFilter, analytics, sessions, fingerprints>>
    /\ UNCHANGED idleVars

NextPermuted == CalculateSessionsCall \/ RearrangedSessionsCall

SpecPermuted == InitPermuted /\ [][NextPermuted]_vars

\* the sessions as pairs of duration and page count
SessionPairs(entries) ==
    LET lists == sessionLists(entries)
    IN  [k \in 1..Len(lists.durations) |-> <<lists.durations[k], lists.pages[k]>>]

\* C30: the session statistics of a rearranged array are those of the
\* array: the same total, the same sessions as a multiset of durations
\* and page counts, the same avgDuration, avgPagesPerSession and bounceRate.
C30_OrderIndependent ==
    pc = "rearrangedDone" =>
        LET rearranged == history[1]
        IN  /\ SameElements(rearranged.entries, logEntries)
            /\ rearranged.sessions.total = sessions.total
            /\ SameElements(SessionPairs(rearranged.entries), SessionPairs(logEntries))
            /\ rearranged.sessions.avgDuration = sessions.avgDuration
            /\ rearranged.sessions.avgDurationFormatted = sessions.avgDurationFormatted
            /\ rearranged.sessions.avgPagesPerSession = sessions.avgPagesPerSession
            /\ rearranged.sessions.bounceRate = sessions.bounceRate

\* visitor A at 10:45, visitor B, visitor A at 10:00, rearranged to visitor
\* A at 10:00 and 10:45 and then visitor B: the sessions come in another
\* order, the statistics are the same
C30_Witness ==
    /\ pc = "rearrangedDone"
    /\ Len(logEntries) = 3
    /\ logEntries[1].ip = VisitorA /\ logEntries[2].ip = VisitorB
    /\ logEntries[3].ip = VisitorA
    /\ Minute(logEntries[1]) - Minute(logEntries[3]) = 45
    /\ history[1].entries = <<logEntries[3], logEntries[1], logEntries[2]>>
    /\ SessionPairs(logEntries) = <<<<0, 1>>, <<0, 1>>, <<0, 1>>>>
    /\ sessions.total = 3

====
